---- MODULE Spec2Model ----
(***************************************************************************)
(* Model of the disease dashboard's data layer: the row normalisers of     *)
(* main.js / map.js / state.js, aggregateByState of map.js, and the page   *)
(* initialisers that feed rows to them.                                    *)
(***************************************************************************)
EXTENDS Integers, Sequences, FiniteSets, TLC

VARIABLES
  rawRow,        \* normaliser input: one parsed CSV record
  normVariant,   \* which normaliser produced normRow ("none" before any call)
  normRow,       \* normaliser output
  csv,           \* rows the CSV parser delivers (header:true, strings)
  PHdata,        \* window.__PHdata (<<>> when unset or empty)
  page,          \* script that initialised the current page
  currentDisease,\* query parameter disease (Null when unset)
  currentYear,   \* query parameter year (Null when unset)
  Qstate,        \* query parameter state of the state page
  byStateAgg,    \* map.js byStateAgg, entries in insertion order
  allRows,       \* state.js (summariser revision): rows handed to the draws
  stateAll,      \* window.stateAll of state.js (defensive revision)
  scatterPoints, \* state.js drawScatterPlot dataPoints
  tsYears,       \* state.js drawStateTimeSeries labels
  totalCases,    \* state.js stats panel total
  repeatCall,    \* history: the last aggregateByState call repeated the one before
  dom,           \* ids of the elements the document holds
  plugins,       \* chart controllers registered with Chart.js
  net,           \* what the requests of the page come back with
  localStore,    \* localStorage: the rows kept under phd_disease_data
  controls,      \* values of the select and checkbox controls
  mapView,       \* map page: charts, selector, summary table, wired listeners
  stateView,     \* state page: charts drawn by the last load
  consoleLog,    \* console messages written so far
  notices,       \* messages visible in the document
  loadState,     \* "idle", "pending" (a promise never settles) or "done"
  usInput,       \* uniqueSorted argument
  usOutput,      \* uniqueSorted result
  summaryUi,     \* state page summary widget
  gemini,        \* callGeminiAPI: loop position, delay, requests and waits so far
  leaflet,       \* map page: the Leaflet map, its layers and its layer control
  theme          \* theme script: the phd_theme entry, data-theme, click listeners

vars == <<rawRow, normVariant, normRow, csv, PHdata, page, currentDisease,
          currentYear, Qstate, byStateAgg, allRows, stateAll,
          scatterPoints, tsYears, totalCases, repeatCall,
          dom, plugins, net, localStore, controls, mapView, stateView, consoleLog, notices,
          loadState, usInput, usOutput, summaryUi, gemini, leaflet, theme>>

envVars == <<dom, plugins, net, localStore>>
viewVars == <<controls, mapView, stateView, consoleLog, notices, loadState>>
uniqueVars == <<usInput, usOutput>>
scriptVars == <<summaryUi, gemini, leaflet, theme>>

normVars == <<rawRow, normVariant, normRow>>
pageVars == <<csv, PHdata, page, currentDisease, currentYear, Qstate,
              byStateAgg, allRows, stateAll, scatterPoints, tsYears,
              totalCases, repeatCall, envVars, viewVars, uniqueVars, scriptVars>>

(***************************************************************************)
(* JavaScript values.  Every value is a record [t, s, n, d]: t is the      *)
(* type tag, s the text of a string, n/d the numerator and denominator of  *)
(* a finite number (n is the sign of an infinity).                         *)
(***************************************************************************)
Undef == [t |-> "undef", s |-> "", n |-> 0, d |-> 1]
Null == [t |-> "null", s |-> "", n |-> 0, d |-> 1]
NaN == [t |-> "nan", s |-> "", n |-> 0, d |-> 1]
Str(x) == [t |-> "str", s |-> x, n |-> 0, d |-> 1]
Inf(sign) == [t |-> "inf", s |-> "", n |-> sign, d |-> 1]

Abs(i) == IF i < 0 THEN -i ELSE i

RECURSIVE GCD(_, _)
GCD(a, b) == IF b = 0 THEN a ELSE GCD(b, a % b)

\* a finite number n/d in lowest terms, d > 0
Rat(n, d) ==
  LET g == GCD(Abs(n), Abs(d))
      sg == IF d < 0 THEN -1 ELSE 1
  IN [t |-> "num", s |-> "", n |-> sg * (n \div g), d |-> sg * (d \div g)]

Num(i) == [t |-> "num", s |-> "", n |-> i, d |-> 1]

IsNum(v) == v.t = "num"

\* x.trim() on the strings of the model
Trim(x) ==
  CASE x = " " -> ""
    [] x = " 2020" -> "2020"
    [] x = "CA " -> "CA"
    [] OTHER -> x

\* decimal literals of the model and their values
NumericTable ==
  ("0" :> 0) @@ ("5" :> 5) @@ ("7" :> 7) @@ ("9" :> 9) @@ ("12" :> 12) @@
  ("-5" :> -5) @@ ("10" :> 10) @@ ("20" :> 20) @@ ("30" :> 30) @@
  ("50" :> 50) @@ ("100" :> 100) @@ ("200" :> 200) @@ ("500" :> 500) @@
  ("1000" :> 1000) @@ ("2000" :> 2000) @@ ("3000" :> 3000) @@
  ("2020" :> 2020) @@ ("2021" :> 2021) @@ ("2" :> 2) @@ ("300" :> 300) @@
  ("5000" :> 5000) @@ ("2018" :> 2018) @@ ("2019" :> 2019)

\* Number(v)
ToNumber(v) ==
  CASE v.t = "undef" -> NaN
    [] v.t = "null" -> Num(0)
    [] v.t = "str" ->
         IF Trim(v.s) = "" THEN Num(0)
         ELSE IF Trim(v.s) \in DOMAIN NumericTable THEN Num(NumericTable[Trim(v.s)])
         ELSE NaN
    [] OTHER -> v

\* String(v), as text
JsString(v) ==
  CASE v.t = "str" -> v.s
    [] v.t = "undef" -> "undefined"
    [] v.t = "null" -> "null"
    [] v.t = "nan" -> "NaN"
    [] v.t = "inf" -> IF v.n > 0 THEN "Infinity" ELSE "-Infinity"
    [] OTHER ->
         IF v.d = 1 /\ \E x \in DOMAIN NumericTable : NumericTable[x] = v.n
         THEN CHOOSE x \in DOMAIN NumericTable : NumericTable[x] = v.n
         ELSE "<number>"

\* the truthiness test of  ||  &&  ?:  and  !
Truthy(v) ==
  CASE v.t = "str" -> v.s # ""
    [] v.t = "num" -> v.n # 0
    [] v.t = "inf" -> TRUE
    [] OTHER -> FALSE

\* a || b
Or(a, b) == IF Truthy(a) THEN a ELSE b

\* a + b on numbers
JsAdd(a, b) ==
  IF a.t = "nan" \/ b.t = "nan" THEN NaN
  ELSE IF a.t = "inf" /\ b.t = "inf" THEN (IF a.n = b.n THEN a ELSE NaN)
  ELSE IF a.t = "inf" THEN a
  ELSE IF b.t = "inf" THEN b
  ELSE Rat(a.n * b.d + b.n * a.d, a.d * b.d)

\* a / b on numbers
JsDiv(a, b) ==
  IF a.t = "nan" \/ b.t = "nan" THEN NaN
  ELSE IF a.t = "inf" THEN
    (IF b.t = "inf" THEN NaN ELSE Inf(IF b.n < 0 THEN -a.n ELSE a.n))
  ELSE IF b.t = "inf" THEN Num(0)
  ELSE IF b.n = 0 THEN
    (IF a.n = 0 THEN NaN ELSE Inf(IF a.n < 0 THEN -1 ELSE 1))
  ELSE Rat(a.n * b.d, a.d * b.n)

\* a * b on numbers
JsMul(a, b) ==
  IF a.t = "nan" \/ b.t = "nan" THEN NaN
  ELSE IF a.t = "inf" \/ b.t = "inf" THEN
    (IF a.n = 0 \/ b.n = 0 THEN NaN
     ELSE Inf(IF (a.n < 0) = (b.n < 0) THEN 1 ELSE -1))
  ELSE Rat(a.n * b.n, a.d * b.d)

\* a < b on numbers (false when either is NaN)
JsLess(a, b) ==
  IF a.t = "nan" \/ b.t = "nan" THEN FALSE
  ELSE IF a.t = "inf" THEN a.n < 0 /\ ~(b.t = "inf" /\ b.n < 0)
  ELSE IF b.t = "inf" THEN b.n > 0
  ELSE a.n * b.d < b.n * a.d

\* Math.max(a, b)
MathMax(a, b) ==
  IF a.t = "nan" \/ b.t = "nan" THEN NaN
  ELSE IF JsLess(a, b) THEN b ELSE a

Hundred_k == Num(100000)

(***************************************************************************)
(* Raw records.  A record is a function from the header names of the file  *)
(* to values; a name outside its domain, or mapped to Undef, reads as      *)
(* undefined.                                                              *)
(***************************************************************************)
Get(obj, k) == IF k \in DOMAIN obj THEN obj[k] ELSE Undef

\* key.toLowerCase() on the header names of the model
ToLower(k) ==
  CASE k = "State" -> "state"
    [] k = "Year" -> "year"
    [] k = "DISEASE" -> "disease"
    [] k = "Disease" -> "disease"
    [] k = "Cases" -> "cases"
    [] k = "CASES" -> "cases"
    [] k = "Population" -> "population"
    [] k = "POP" -> "pop"
    [] k = "Pop" -> "pop"
    [] k = "STATE" -> "state"
    [] k = "YEAR" -> "year"
    [] k = "Location" -> "location"
    [] k = "Province" -> "province"
    [] k = "YearInt" -> "yearint"
    [] k = "Condition" -> "condition"
    [] k = "Count" -> "count"
    [] k = "Density" -> "density"
    [] OTHER -> k

\* Object.keys(obj): the columns in file order that the record holds
HeaderOrder ==
  <<"state", "State", "year", "Year", "disease", "DISEASE", "cases", "Cases",
    "CASES", "population", "pop", "POP", "population_density", "density",
    "per100k">>

ObjectKeys(obj) ==
  SelectSeq(HeaderOrder, LAMBDA k : k \in DOMAIN obj /\ obj[k] # Undef)

\* a lookup that lets a later alias override an earlier one
_pickLast(obj, keys) ==
  LET present == {i \in 1..Len(keys) : Get(obj, keys[i]) # Undef}
  IN IF present = {} THEN Undef
     ELSE Get(obj, keys[CHOOSE i \in present : \A j \in present : j <= i])

\* main.js / map.js / main.js (localStorage revision): first alias that is
\* not undefined
RECURSIVE _pick(_, _)
_pick(obj, keys) ==
  IF keys = <<>> THEN Undef
  ELSE IF Get(obj, Head(keys)) # Undef THEN Get(obj, Head(keys))
  ELSE _pick(obj, Tail(keys))

\* state.js: the lower-cased copy of the record, later columns overwriting
\* earlier ones with the same lower-cased name
RECURSIVE LowerFold(_, _, _)
LowerFold(obj, ks, acc) ==
  IF ks = <<>> THEN acc
  ELSE LowerFold(obj, Tail(ks),
         [k \in (DOMAIN acc) \cup {ToLower(Head(ks))} |->
            IF k = ToLower(Head(ks)) THEN obj[Head(ks)] ELSE acc[k]])

EmptyObj == [k \in {} |-> Undef]

RECURSIVE pickLower(_, _)
pickLower(lower, keys) ==
  IF keys = <<>> THEN Undef
  ELSE IF Get(lower, ToLower(Head(keys))) # Undef
       THEN Get(lower, ToLower(Head(keys)))
  ELSE pickLower(lower, Tail(keys))

\* state.js _pick: exact aliases first, then the case-insensitive pass
_pickCI(obj, keys) ==
  IF _pick(obj, keys) # Undef THEN _pick(obj, keys)
  ELSE pickLower(LowerFold(obj, ObjectKeys(obj), EmptyObj), keys)

(***************************************************************************)
(* Row normalisers, one per revision of the scripts.                       *)
(***************************************************************************)

\* main.js normalizeRow
normalizeRow_main(r) ==
  [state |-> Or(_pick(r, <<"state", "State", "STATE", "location", "province">>), Str("")),
   year |-> Or(_pick(r, <<"year", "Year", "YEAR">>), Str("")),
   disease |-> Or(_pick(r, <<"disease", "Disease", "condition">>), Str("")),
   cases |-> ToNumber(Or(_pick(r, <<"cases", "Cases", "value", "count">>), Num(0))),
   population |-> ToNumber(Or(_pick(r, <<"population", "Population", "pop">>), Num(0))),
   population_density |->
     ToNumber(Or(_pick(r, <<"population_density", "population density", "density",
                            "pop_density">>), Num(0)))]

\* map.js normaliseRow
normaliseRow_map(r) ==
  [state |-> Or(_pick(r, <<"state", "State", "STATE", "location", "province">>), Str("")),
   year |-> Or(_pick(r, <<"year", "Year", "YEAR">>), Str("")),
   disease |-> Or(_pick(r, <<"disease", "Disease", "condition">>), Str("")),
   cases |-> ToNumber(Or(_pick(r, <<"cases", "Cases", "value", "count">>), Num(0))),
   population |-> ToNumber(Or(_pick(r, <<"population", "Population", "pop">>), Num(0))),
   population_density |->
     ToNumber(Or(_pick(r, <<"population_density", "population density", "density",
                            "pop_density">>), Num(0)))]

\* map.js (robust revision) normaliseRow
normaliseRow_map_v2(r) ==
  [state |-> Or(_pick(r, <<"state", "State", "STATE", "location", "Location",
                           "province">>), Str("")),
   year |-> Or(_pick(r, <<"year", "Year", "YEAR", "yr">>), Str("")),
   disease |-> Or(_pick(r, <<"disease", "Disease", "condition", "Condition">>), Str("")),
   cases |-> ToNumber(Or(_pick(r, <<"cases", "Cases", "value", "count", "Count">>), Num(0))),
   population |-> ToNumber(Or(_pick(r, <<"population", "Population", "pop", "Pop">>),
                              Num(0))),
   population_density |->
     ToNumber(Or(_pick(r, <<"population_density", "population density", "density",
                            "pop_density", "pop density">>), Num(0)))]

\* main.js (localStorage revision) normalizeRow: trimmed text, per100k
\* precomputed without a guard on the denominator
normalizeRow(r) ==
  [state |-> Str(Trim(JsString(
               Or(_pick(r, <<"state", "State", "STATE", "location", "province">>), Str(""))))),
   year |-> Str(Trim(JsString(Or(_pick(r, <<"year", "Year", "YEAR", "yr">>), Str(""))))),
   disease |-> Str(Trim(JsString(
                 Or(_pick(r, <<"disease", "Disease", "condition">>), Str(""))))),
   cases |-> ToNumber(Or(_pick(r, <<"cases", "Cases", "value", "count">>), Num(0))),
   population |-> ToNumber(Or(_pick(r, <<"population", "Population", "pop">>), Num(0))),
   population_density |->
     ToNumber(Or(_pick(r, <<"population_density", "population density", "density",
                            "pop_density">>), Num(0))),
   per100k |->
     JsMul(JsDiv(ToNumber(Or(_pick(r, <<"cases", "Cases", "value", "count">>), Num(0))),
                 ToNumber(Or(_pick(r, <<"population", "Population", "pop">>), Num(0)))),
           Hundred_k)]

\* state.js (summariser revision) normaliseRow
normaliseRow_summary(r) ==
  [state |-> Or(_pickCI(r, <<"state", "State", "STATE", "location", "Location",
                             "province", "Province">>), Str("")),
   year |-> Str(Trim(JsString(
              Or(_pickCI(r, <<"year", "Year", "YEAR", "yr", "YearInt">>), Str(""))))),
   disease |-> Or(_pickCI(r, <<"disease", "Disease", "condition", "Condition",
                               "illness">>), Str("")),
   cases |-> ToNumber(Or(_pickCI(r, <<"cases", "Cases", "value", "count", "Count">>),
                         Num(0))),
   population |-> ToNumber(Or(_pickCI(r, <<"population", "Population", "pop", "Pop">>),
                              Num(0))),
   population_density |->
     ToNumber(Or(_pickCI(r, <<"population_density", "population density", "density",
                              "pop_density", "Density">>), Num(0))),
   per100k |->
     JsMul(JsDiv(ToNumber(Or(_pickCI(r, <<"cases", "Cases", "value", "count", "Count">>),
                             Num(0))),
                 MathMax(Num(1),
                         ToNumber(Or(_pickCI(r, <<"population", "Population", "pop",
                                                   "Pop">>), Num(0))))),
           Hundred_k)]

\* state.js (defensive revision) normaliseRow
normaliseRow_state(r) ==
  [state |-> Or(_pickCI(r, <<"state", "State", "STATE", "location", "Location",
                             "province", "Province">>), Str("")),
   year |-> Str(Trim(JsString(
              Or(_pickCI(r, <<"year", "Year", "YEAR", "yr", "YearInt">>), Str(""))))),
   disease |-> Or(_pickCI(r, <<"disease", "Disease", "condition", "Condition",
                               "illness">>), Str("")),
   cases |-> Or(ToNumber(Or(_pickCI(r, <<"cases", "Cases", "value", "count", "Count">>),
                            Num(0))), Num(0)),
   population |-> Or(ToNumber(Or(_pickCI(r, <<"population", "Population", "pop",
                                              "Pop">>), Num(0))), Num(0)),
   population_density |->
     Or(ToNumber(Or(_pickCI(r, <<"population_density", "population density", "density",
                                 "pop_density", "pop density">>), Num(0))), Num(0))]

\* Papa.parse dynamicTyping: numeric text becomes a number, empty text null
DynamicTyping(r) ==
  [k \in DOMAIN r |->
     IF r[k].t # "str" THEN r[k]
     ELSE IF r[k].s = "" THEN Null
     ELSE IF r[k].s \in DOMAIN NumericTable THEN Num(NumericTable[r[k].s])
     ELSE r[k]]

(***************************************************************************)
(* Normaliser inputs: records over a header that carries exact aliases,    *)
(* a second alias of the same field, and names that only match without     *)
(* regard to case.                                                         *)
(***************************************************************************)
RawRecords ==
  [state : {Undef, Str(""), Str("CA")},
   State : {Undef, Str("NY")},
   year : {Undef, Str("2020"), Str(" 2020")},
   disease : {Undef, Str("Flu")},
   DISEASE : {Undef, Str("Cold")},
   cases : {Undef, Str(""), Str("abc"), Str("5"), Str("-5")},
   Cases : {Undef, Str("7")},
   CASES : {Undef, Str("9")},
   population : {Undef, Str("0"), Str("abc"), Str("1000")},
   pop : {Undef, Str("2000")},
   density : {Undef, Str("12")}]

(***************************************************************************)
(* aggregateByState                                                        *)
(***************************************************************************)
MapSeq(F(_), xs) == [i \in 1..Len(xs) |-> F(xs[i])]

\* a === b
StrictEq(a, b) == a = b /\ a.t # "nan"

\* index of the entry of map whose key is k, 0 when there is none
IndexOf(map, k) ==
  IF \E i \in 1..Len(map) : map[i].state = k
  THEN CHOOSE i \in 1..Len(map) : map[i].state = k
  ELSE 0

\* guards of the forEach body: the row is folded only when none returns
ParticipatesAnyYear(r, disease, year) ==
  /\ Truthy(r.state)
  /\ ~(Truthy(disease) /\ ~StrictEq(r.disease, disease))

Participates(r, disease, year) ==
  /\ Truthy(r.state)
  /\ ~(Truthy(disease) /\ ~StrictEq(r.disease, disease))
  /\ ~(Truthy(year) /\ JsString(r.year) # JsString(year))

\* a fold that keeps the last row's figures instead of accumulating
FoldRowOverwrite(map, r) ==
  LET k == JsString(r.state)
      e == [state |-> k,
            cases |-> Or(ToNumber(r.cases), Num(0)),
            population |-> Or(ToNumber(r.population), Num(0)),
            density |-> Or(ToNumber(r.population_density), Num(0))]
  IN IF IndexOf(map, k) = 0 THEN Append(map, e)
     ELSE [map EXCEPT ![IndexOf(map, k)] = e]

\* a fold that sums the cases but lets every row overwrite population and
\* density
FoldRowLastWins(map, r) ==
  LET k == JsString(r.state)
      i == IndexOf(map, k)
      old == IF i = 0 THEN Num(0) ELSE map[i].cases
      e == [state |-> k,
            cases |-> JsAdd(old, Or(ToNumber(r.cases), Num(0))),
            population |-> Or(ToNumber(r.population), Num(0)),
            density |-> Or(ToNumber(r.population_density), Num(0))]
  IN IF i = 0 THEN Append(map, e) ELSE [map EXCEPT ![i] = e]

\* body of the forEach after the guards: create the entry on first sight,
\* add the cases, keep population and density once they are truthy
FoldRow(map, r) ==
  LET k == JsString(r.state)
      i == IndexOf(map, k)
      e0 == IF i # 0 THEN map[i]
            ELSE [state |-> k,
                  cases |-> Num(0),
                  population |-> Or(r.population, Num(0)),
                  density |-> Or(r.population_density, Num(0))]
      e1 == [e0 EXCEPT
               !.cases = JsAdd(e0.cases, Or(ToNumber(r.cases), Num(0))),
               !.population = Or(Or(e0.population, ToNumber(r.population)), Num(0)),
               !.density = Or(Or(e0.density, ToNumber(r.population_density)), Num(0))]
  IN IF i = 0 THEN Append(map, e1) ELSE [map EXCEPT ![i] = e1]

RECURSIVE AggFold(_, _, _, _)
AggFold(data, disease, year, map) ==
  IF data = <<>> THEN map
  ELSE LET r == normaliseRow_map(Head(data))
       IN AggFold(Tail(data), disease, year,
                  IF Participates(r, disease, year) THEN FoldRow(map, r) ELSE map)

\* a rate computed without the guard on the population
Per100kUnguarded(v) == JsMul(JsDiv(v.cases, v.population), Hundred_k)

\* the rate of one entry, computed after the fold
Per100k(v) ==
  IF Truthy(v.population)
  THEN JsMul(JsDiv(v.cases, MathMax(v.population, Num(1))), Hundred_k)
  ELSE Num(0)

WithPer100k(v) ==
  [state |-> v.state, cases |-> v.cases, population |-> v.population,
   density |-> v.density, per100k |-> Per100k(v)]

StripPer100k(v) ==
  [state |-> v.state, cases |-> v.cases, population |-> v.population,
   density |-> v.density]

\* an aggregation whose map outlives the call: it starts from the entries
\* of the previous result
aggregateByStateCarry(data, disease, year) ==
  MapSeq(WithPer100k, AggFold(data, disease, year, MapSeq(StripPer100k, byStateAgg)))

\* map.js aggregateByState: a fresh map per call
aggregateByState(data, disease, year) ==
  MapSeq(WithPer100k, AggFold(data, disease, year, <<>>))

\* map.js (robust revision) aggregateByState: the same fold over the rows
\* of its own normaliseRow
RECURSIVE AggFold_v2(_, _, _, _)
AggFold_v2(data, disease, year, map) ==
  IF data = <<>> THEN map
  ELSE LET r == normaliseRow_map_v2(Head(data))
       IN AggFold_v2(Tail(data), disease, year,
                     IF Participates(r, disease, year) THEN FoldRow(map, r) ELSE map)

aggregateByState_v2(data, disease, year) ==
  MapSeq(WithPer100k, AggFold_v2(data, disease, year, <<>>))

\* map.js (first charts revision) aggregateByState: reads the parsed
\* records directly, strict comparison of the year, rate without Math.max
RECURSIVE AggFold_v1(_, _, _, _)
AggFold_v1(data, disease, year, map) ==
  IF data = <<>> THEN map
  ELSE LET r == Head(data)
           k == JsString(Get(r, "state"))
           i == IndexOf(map, k)
           e0 == IF i # 0 THEN map[i]
                 ELSE [state |-> k,
                       cases |-> Num(0),
                       population |-> Or(ToNumber(Get(r, "population")), Num(0)),
                       density |-> Or(ToNumber(Get(r, "population_density")), Num(0))]
           e1 == [e0 EXCEPT
                    !.cases = JsAdd(e0.cases, Or(ToNumber(Get(r, "cases")), Num(0))),
                    !.population =
                      Or(Or(e0.population, ToNumber(Get(r, "population"))), Num(0)),
                    !.density =
                      Or(Or(e0.density, ToNumber(Get(r, "population_density"))), Num(0))]
           skip == \/ ~Truthy(Get(r, "state"))
                   \/ Truthy(disease) /\ ~StrictEq(Get(r, "disease"), disease)
                   \/ Truthy(year) /\ ~StrictEq(Get(r, "year"), year)
       IN AggFold_v1(Tail(data), disease, year,
                     IF skip THEN map
                     ELSE IF i = 0 THEN Append(map, e1)
                     ELSE [map EXCEPT ![i] = e1])

aggregateByState_v1(data, disease, year) ==
  MapSeq(LAMBDA v : [state |-> v.state, cases |-> v.cases,
                     population |-> v.population, density |-> v.density,
                     per100k |-> IF Truthy(v.population)
                                 THEN JsMul(JsDiv(v.cases, v.population), Hundred_k)
                                 ELSE Num(0)],
         AggFold_v1(data, disease, year, <<>>))

(***************************************************************************)
(* Text order and Array.prototype.sort.                                    *)
(***************************************************************************)

\* the texts of the model in UTF-16 code unit order, the order of a sort()
\* without comparator
CodeUnitOrder ==
  <<"", " 2020", "10", "1a", "2", "2018", "2019", "2020", "2021", "A", "B", "C",
    "CA", "Cold", "D", "E", "F", "Flu", "NA", "NY", "TX", "Unknown", "WA", "flu">>

\* the same texts in localeCompare order
LocaleOrder ==
  <<"", " 2020", "10", "1a", "2", "2018", "2019", "2020", "2021", "A", "B", "C",
    "CA", "Cold", "D", "E", "F", "flu", "Flu", "NA", "NY", "TX", "Unknown", "WA">>

RankIn(order, x) == CHOOSE i \in 1..Len(order) : order[i] = x

\* a.localeCompare(b) < 0
LocaleBefore(a, b) == RankIn(LocaleOrder, a) < RankIn(LocaleOrder, b)

\* Array.from(new Set(values)).sort(): the distinct texts in code unit order
RECURSIVE SortTexts(_)
SortTexts(S) ==
  IF S = {} THEN <<>>
  ELSE LET m == CHOOSE x \in S :
                  \A y \in S : RankIn(CodeUnitOrder, x) <= RankIn(CodeUnitOrder, y)
       IN <<m>> \o SortTexts(S \ {m})

\* a - b on numbers
JsSub(a, b) ==
  LET minus == JsMul(Num(-1), b)
  IN JsAdd(a, minus)

\* the comparators of the scripts: TRUE when comparator(a, b) < 0
\* the comparator of uniqueSorted answers below zero
UniqueBefore(a, b) ==
  IF ToNumber(a).t # "nan" /\ ToNumber(b).t # "nan"
  THEN JsLess(ToNumber(a), ToNumber(b))
  ELSE LocaleBefore(JsString(a), JsString(b))

Before(mode, a, b) ==
  CASE mode = "cases_asc" -> JsLess(a.cases, b.cases)
    [] mode = "unique" -> UniqueBefore(a, b)
    [] mode = "cases_desc" -> JsLess(b.cases, a.cases)
    [] mode = "alpha_asc" -> LocaleBefore(a.state, b.state)
    [] mode = "alpha_desc" -> LocaleBefore(b.state, a.state)
    [] mode = "pop_desc" -> JsLess(b.population, a.population)
    [] mode = "density_desc" -> JsLess(b.density, a.density)
    [] mode = "per100k_desc" -> JsLess(b.per100k, a.per100k)
    [] mode = "total_desc" -> JsLess(b.total, a.total)
    [] mode = "val_asc" -> JsLess(a.val, b.val)
    [] OTHER -> JsLess(b.cases, a.cases)

RangeOf(s) == {s[i] : i \in 1..Len(s)}

Front(s) == SubSeq(s, 1, Len(s) - 1)
Last(s) == s[Len(s)]

\* a sort that puts an element in front of the elements it ties with
RECURSIVE InsertRowUnstable(_, _, _)
InsertRowUnstable(sorted, x, mode) ==
  IF sorted = <<>> THEN <<x>>
  ELSE LET last == Last(sorted)
       IN IF ~Before(mode, last, x)
          THEN Append(InsertRowUnstable(Front(sorted), x, mode), last)
          ELSE Append(sorted, x)

RECURSIVE ArraySortUnstable(_, _)
ArraySortUnstable(rows, mode) ==
  IF rows = <<>> THEN <<>>
  ELSE LET sorted == ArraySortUnstable(Front(rows), mode)
           x == Last(rows)
       IN InsertRowUnstable(sorted, x, mode)

\* rows.sort(comparator): stable, an element moves in front of exactly the
\* elements the comparator puts it before
RECURSIVE InsertRow(_, _, _)
InsertRow(sorted, x, mode) ==
  IF sorted = <<>> THEN <<x>>
  ELSE LET last == Last(sorted)
       IN IF Before(mode, x, last)
          THEN Append(InsertRow(Front(sorted), x, mode), last)
          ELSE Append(sorted, x)

RECURSIVE ArraySort(_, _)
ArraySort(rows, mode) ==
  IF rows = <<>> THEN <<>>
  ELSE LET sorted == ArraySort(Front(rows), mode)
           x == Last(rows)
       IN InsertRow(sorted, x, mode)

(***************************************************************************)
(* uniqueSorted of the landing page.                                       *)
(***************************************************************************)
\* the distinct values of a column in the order they are first seen
RECURSIVE UniqueInOrder(_)
UniqueInOrder(xs) ==
  IF xs = <<>> THEN <<>>
  ELSE LET acc == UniqueInOrder(Front(xs))
       IN IF \E i \in 1..Len(acc) : acc[i] = Last(xs) THEN acc ELSE Append(acc, Last(xs))

\* the comparator orders the values: what it puts before is transitive, and
\* so is what it leaves unordered
ConsistentOn(vals) ==
  \A a, b, c \in vals :
     /\ (UniqueBefore(a, b) /\ UniqueBefore(b, c)) => UniqueBefore(a, c)
     /\ (~UniqueBefore(a, b) /\ ~UniqueBefore(b, a)
           /\ ~UniqueBefore(b, c) /\ ~UniqueBefore(c, b))
          => (~UniqueBefore(a, c) /\ ~UniqueBefore(c, a))

Reorderings(xs) ==
  {p \in [1..Len(xs) -> RangeOf(xs)] :
     \A i, j \in 1..Len(xs) : p[i] = p[j] => i = j}

\* kept.sort(comparator): the stable order when the comparator is
\* consistent, an order the engine chooses when it is not
SortedOutcomes(kept) ==
  IF ConsistentOn(RangeOf(kept)) THEN {ArraySort(kept, "unique")}
  ELSE Reorderings(kept)

\* main.js uniqueSorted: the arrays it can return
uniqueSorted_main(arr) ==
  SortedOutcomes(SelectSeq(UniqueInOrder(arr),
                           LAMBDA x : Truthy(x) /\ ~StrictEq(x, Str("NA"))))

\* uniqueSorted of the localStorage revision
uniqueSorted(arr) ==
  SortedOutcomes(SelectSeq(UniqueInOrder(arr),
                           LAMBDA x : /\ Truthy(x) /\ ~StrictEq(x, Str("NA"))
                                      /\ Trim(JsString(x)) # ""))

(***************************************************************************)
(* The theme scripts.  stored is the phd_theme entry of localStorage       *)
(* ("unset" when there is none), attr the data-theme attribute of the      *)
(* document element ("none" when it has none), listeners the click         *)
(* listeners the loaded script put on the document, toggles the calls of   *)
(* toggle() made for the last click, target the element that click hit.    *)
(***************************************************************************)
NoTheme ==
  [script |-> "none", stored |-> "unset", attr |-> "none", listeners |-> 0,
   clicks |-> 0, toggles |-> 0, target |-> ""]

\* localStorage.getItem('phd_theme') || 'light'
StoredOrLight(t) == IF t.stored \in {"unset", ""} THEN "light" ELSE t.stored

\* theme.js setTheme
setTheme(t, name) ==
  [t EXCEPT !.attr = IF name = "dark" THEN "dark" ELSE "none", !.stored = name]

\* theme.js (event revision) setTheme
setTheme_v2(t, name) ==
  [t EXCEPT !.attr = IF name = "dark" THEN "dark" ELSE "light", !.stored = name]

\* theme.js toggle, the same in both of its blocks
toggle(t) ==
  [setTheme(t, IF t.stored = "dark" THEN "light" ELSE "dark") EXCEPT !.toggles = @ + 1]

\* theme.js (event revision) toggle
toggle_v2(t) ==
  [setTheme_v2(t, IF StoredOrLight(t) = "dark" THEN "light" ELSE "dark") EXCEPT
     !.toggles = @ + 1]

\* one block of theme.js: the stored theme applied, a click listener added
ThemeBlock(t) == [setTheme(t, StoredOrLight(t)) EXCEPT !.listeners = @ + 1]

ToggleIds == {"themeToggleHeader", "themeToggleMap", "themeToggleState"}
IconIds == {"themeIconHeader", "themeIconMap", "themeIconState"}

\* the rest of the program when a theme script runs
ThemeFrame ==
  UNCHANGED <<normVars, csv, PHdata, page, currentDisease, currentYear, Qstate,
              byStateAgg, allRows, stateAll, scatterPoints, tsYears, totalCases,
              repeatCall, envVars, viewVars, uniqueVars, summaryUi, gemini, leaflet>>

\* a document loads theme.js: its two blocks run one after the other
LoadThemeJs ==
  /\ theme' = ThemeBlock(ThemeBlock(
                [NoTheme EXCEPT !.script = "theme.js", !.stored = theme.stored]))
  /\ ThemeFrame

\* a document loads theme.js (event revision)
LoadThemeJs_v2 ==
  /\ \E t \in {[NoTheme EXCEPT !.script = "theme_v2", !.stored = theme.stored]} :
       theme' = [setTheme_v2(t, StoredOrLight(t)) EXCEPT !.listeners = 1]
  /\ ThemeFrame

\* the click listeners of theme.js, each calling toggle() when the target is
\* a toggle button or its icon
RECURSIVE RunThemeListeners(_, _)
RunThemeListeners(t, n) ==
  IF n = 0 THEN t ELSE toggle(RunThemeListeners(t, n - 1))

MaxClicks == 4

\* a click on a toggle button or on the icon inside it; in the event
\* revision the listener looks the button up with closest()
ClickTheme(target) ==
  /\ theme.script # "none" /\ target \in dom
  /\ theme.clicks < MaxClicks
  /\ \E t \in {[theme EXCEPT !.clicks = @ + 1, !.toggles = 0, !.target = target]} :
       theme' = IF theme.script = "theme.js" THEN RunThemeListeners(t, t.listeners)
                ELSE toggle_v2(t)
  /\ ThemeFrame

(***************************************************************************)
(* The Leaflet map of the map page: how many layers of each kind and how   *)
(* many layer controls it holds, and what the script's variables refer to. *)
(***************************************************************************)
\* casesLayer and densityLayer: "none" (null), or a layer that is "on" the
\* map or "off" it
NoLeaflet ==
  [created |-> FALSE, cases |-> 0, density |-> 0, controls |-> 0,
   casesLayer |-> "none", densityLayer |-> "none", control |-> FALSE]

\* casesMap.removeLayer(layer): a layer that is not on the map stays off it
RemoveLayer(m, kind, ref) ==
  IF m[ref] = "on" THEN [m EXCEPT ![kind] = @ - 1, ![ref] = "none"]
  ELSE [m EXCEPT ![ref] = "none"]

\* map.js buildMaps (part_000:403-487 is the same with try/catch around the
\* removals)
buildMaps(m) ==
  LET made == [m EXCEPT !.created = TRUE]
      noCases == RemoveLayer(made, "cases", "casesLayer")
      noDensity == RemoveLayer(noCases, "density", "densityLayer")
      withCases == [noDensity EXCEPT !.cases = @ + 1, !.casesLayer = "on"]
      withDensity == [withCases EXCEPT !.densityLayer = "off"]
      noControl == IF withDensity.control
                   THEN [withDensity EXCEPT !.controls = @ - 1, !.control = FALSE]
                   ELSE withDensity
  IN [noControl EXCEPT !.controls = @ + 1, !.control = TRUE]

buildMaps_v2(m) == buildMaps(m)

\* first charts revision buildMaps: a new layer is added to the map, no
\* variable keeps it, there is no density layer and no control
buildMaps_v1(m) == [m EXCEPT !.created = TRUE, !.cases = @ + 1]

(***************************************************************************)
(* The charts of the map page.  A chart that was never drawn is NoChart.   *)
(***************************************************************************)
NoChart == [drawn |-> FALSE]

\* Object.entries(byState).map(...): the rows of the bar chart and of the
\* summary table
EntryRows(byState) ==
  [i \in 1..Len(byState) |->
     [state |-> byState[i].state,
      cases |-> Or(byState[i].cases, Num(0)),
      population |-> Or(byState[i].population, Num(0)),
      density |-> Or(byState[i].density, Num(0)),
      per100k |-> Or(byState[i].per100k, Num(0))]]

\* a bar chart whose equal bars change places
buildCasesByStateBarUnstable(byState, sortMode) ==
  LET rows == ArraySortUnstable(EntryRows(byState), sortMode)
  IN [drawn |-> TRUE,
      labels |-> [i \in 1..Len(rows) |-> rows[i].state],
      data |-> [i \in 1..Len(rows) |-> rows[i].cases]]

\* map.js buildCasesByStateBar: labels and data of the chart
buildCasesByStateBar(byState, sortMode) ==
  LET rows == ArraySort(EntryRows(byState), sortMode)
  IN [drawn |-> TRUE,
      labels |-> [i \in 1..Len(rows) |-> rows[i].state],
      data |-> [i \in 1..Len(rows) |-> rows[i].cases]]

\* the arrays a chart function holds: the aggregation it was handed and the
\* rows it built from it (Object.entries(byState).map(...) returns a new array
\* of new objects)
CallFrame(byState, rows) == [byState |-> byState, rows |-> rows]

\* a sort of rows when rows shares its entries with the aggregation
SortRowsShared(f, mode) ==
  [f EXCEPT !.rows = ArraySort(@, mode), !.byState = ArraySort(@, mode)]

\* rows.sort(...): the array rows is sorted in place
SortRows(f, mode) == [f EXCEPT !.rows = ArraySort(@, mode)]

\* the aggregation after buildCasesByStateBar(byState, sortMode)
AggAfterBar(byState, sortMode) ==
  SortRows(CallFrame(byState, EntryRows(byState)), sortMode).byState

\* the aggregation after renderSummaryTable(byState)
AggAfterTable(byState) ==
  IF byState = <<>> THEN byState
  ELSE SortRows(CallFrame(byState, EntryRows(byState)), "cases_desc").byState

\* Math.floor and Math.round on finite numbers
MathFloor(v) == Num(v.n \div v.d)
MathRound(v) == Num((2 * v.n + v.d) \div (2 * v.d))

\* Math.pow(10, Math.floor(Math.log10(w))) for w >= 1
RECURSIVE PowerOfTenUpTo(_, _)
PowerOfTenUpTo(w, p) ==
  IF 10 * p * w.d <= w.n THEN PowerOfTenUpTo(w, 10 * p) ELSE p

\* the denominator of Math.pow(10, Math.floor(Math.log10(w))) for 0 < w < 1
RECURSIVE PowerOfTenBelow(_, _)
PowerOfTenBelow(w, q) ==
  IF w.d <= w.n * q THEN q ELSE PowerOfTenBelow(w, 10 * q)

\* map.js roundBinWidth
roundBinWidth(width) ==
  LET floor == MathMax(Num(1), width)
      p == Num(PowerOfTenUpTo(floor, 1))
      q == JsDiv(width, p)
      r == MathRound(q)
      v == JsMul(r, p)
  IN IF v = Num(0) THEN p ELSE v

\* map.js (first charts revision) roundBinWidth: no lower bound on the width
roundBinWidth_v1(width) ==
  LET p == IF JsLess(width, Num(1)) THEN Rat(1, PowerOfTenBelow(width, 10))
           ELSE Num(PowerOfTenUpTo(width, 1))
      q == JsDiv(width, p)
      r == MathRound(q)
      v == JsMul(r, p)
  IN IF v = Num(0) THEN p ELSE v

HistBins == 4

HistValues(byState, norm) ==
  [i \in 1..Len(byState) |->
     IF norm = "per100k" THEN Or(byState[i].per100k, Num(0))
     ELSE Or(byState[i].cases, Num(0))]

MinOf(vals) ==
  CHOOSE v \in {vals[i] : i \in 1..Len(vals)} :
    \A i \in 1..Len(vals) : ~JsLess(vals[i], v)

MaxOf(vals) ==
  CHOOSE v \in {vals[i] : i \in 1..Len(vals)} :
    \A i \in 1..Len(vals) : ~JsLess(v, vals[i])

\* the bins of the for loop: start, end = start + width - 1, next start = end + 1
BinEdges(min, width) ==
  LET first == MathFloor(min)
  IN [i \in 1..HistBins |->
        LET skipped == JsMul(Num(i - 1), width)
            start == JsAdd(first, skipped)
            next == JsAdd(start, width)
            end == JsSub(next, Num(1))
        IN [start |-> start, end |-> end]]

InBin(val, b) == ~JsLess(val, b.start) /\ ~JsLess(b.end, val)

\* a histogram that leaves out the values no bin holds
RECURSIVE BinIndexDrop(_, _, _)
BinIndexDrop(val, edges, i) ==
  IF i > HistBins THEN 0
  ELSE IF InBin(val, edges[i]) THEN i
  ELSE BinIndexDrop(val, edges, i + 1)

\* the bin a value is counted in: the first that holds it, the last bin
\* when none does
RECURSIVE BinIndex(_, _, _)
BinIndex(val, edges, i) ==
  IF i > HistBins THEN HistBins
  ELSE IF InBin(val, edges[i]) THEN i
  ELSE BinIndex(val, edges, i + 1)

HistChart(byState, vals, edges) ==
  LET entries == [k \in 1..Len(vals) |->
                    [state |-> byState[k].state, val |-> vals[k],
                     bin |-> BinIndex(vals[k], edges, 1)]]
  IN [drawn |-> TRUE,
      bins |-> [i \in 1..HistBins |->
                  LET held == SelectSeq(entries, LAMBDA e : e.bin = i)
                  IN [start |-> edges[i].start, end |-> edges[i].end,
                      count |-> Len(held),
                      states |-> [k \in 1..Len(held) |->
                                    [state |-> held[k].state, val |-> held[k].val]]]]]

\* map.js buildHistogram after the early return on an empty aggregation
buildHistogram(byState, norm) ==
  LET vals == HistValues(byState, norm)
      min == MinOf(vals)
      max == MaxOf(vals)
      span == JsSub(max, min)
      quarter == JsDiv(span, Num(4))
      raw == Or(quarter, Num(1))
      width == roundBinWidth(raw)
      edges == BinEdges(min, width)
  IN HistChart(byState, vals, edges)

\* map.js (first charts revision) buildHistogram
buildHistogram_v1(byState, norm) ==
  LET vals == HistValues(byState, norm)
      min == MinOf(vals)
      max == MaxOf(vals)
      span == JsSub(max, min)
      quarter == JsDiv(span, Num(4))
      raw == Or(quarter, Num(1))
      width == roundBinWidth_v1(raw)
      edges == BinEdges(min, width)
  IN HistChart(byState, vals, edges)

\* Number(r.cases)||0
CasesOrZero(r) == Or(ToNumber(r.cases), Num(0))

RECURSIVE SumOrZero(_)
SumOrZero(rows) ==
  IF rows = <<>> THEN Num(0)
  ELSE JsAdd(SumOrZero(Front(rows)), CasesOrZero(Last(rows)))

\* totals[r.disease] = (totals[r.disease]||0) + (Number(r.cases)||0), the keys
\* in the order they were first seen
RECURSIVE TotalsByDisease(_)
TotalsByDisease(data) ==
  IF data = <<>> THEN <<>>
  ELSE LET acc == TotalsByDisease(Front(data))
           k == JsString(Last(data).disease)
           hit == {i \in 1..Len(acc) : acc[i].key = k}
       IN IF hit = {}
          THEN Append(acc, [key |-> k, total |-> CasesOrZero(Last(data))])
          ELSE LET i == CHOOSE x \in hit : TRUE
               IN [acc EXCEPT ![i].total = JsAdd(Or(acc[i].total, Num(0)),
                                                  CasesOrZero(Last(data)))]

TopDefault == 4

\* .slice(0, n)
Slice(s, n) == SubSeq(s, 1, IF Len(s) < n THEN Len(s) ELSE n)

KeysOf(entries) == {entries[i].key : i \in 1..Len(entries)}

\* a selection that takes the first keys seen instead of the largest totals
TopKeysFirstSeen(entries, n) == KeysOf(Slice(entries, n))

\* Object.entries(totals).sort((a,b)=>b[1]-a[1]).slice(0,n).map(x=>x[0])
TopList(entries, n) ==
  LET top == Slice(ArraySort(entries, "total_desc"), n)
  IN [i \in 1..Len(top) |-> top[i].key]

TopKeys(entries, n) == RangeOf(TopList(entries, n))

\* map.js populateMultiDiseaseSelector: the options and the selected ones
populateMultiDiseaseSelector(allData) ==
  LET ds == SortTexts({JsString(allData[i].disease) : i \in 1..Len(allData)})
      top == TopKeys(TotalsByDisease(allData), TopDefault)
  IN [options |-> ds, selected |-> SelectSeq(ds, LAMBDA d : d \in top)]

\* yearsPer[d]
YearsOf(data, d) ==
  SortTexts({JsString(data[i].year) :
               i \in {j \in 1..Len(data) : StrictEq(data[j].disease, Str(d))}})

\* a reduce that keeps the years of any selected disease
RECURSIVE AnyYears(_, _)
AnyYears(data, selected) ==
  IF selected = <<>> THEN {}
  ELSE AnyYears(data, Front(selected)) \cup
       {YearsOf(data, Last(selected))[i] : i \in 1..Len(YearsOf(data, Last(selected)))}

\* selected.reduce(...): the years of the first disease, filtered by each
\* further one
RECURSIVE CommonYears(_, _)
CommonYears(data, selected) ==
  IF Len(selected) = 1 THEN YearsOf(data, selected[1])
  ELSE LET arr == YearsOf(data, Last(selected))
       IN SelectSeq(CommonYears(data, Front(selected)),
                    LAMBDA y : \E i \in 1..Len(arr) : arr[i] = y)

SeriesOf(data, selected, common) ==
  [k \in 1..Len(selected) |->
     [label |-> selected[k],
      data |-> [i \in 1..Len(common) |->
                  SumOrZero(SelectSeq(data,
                    LAMBDA r : /\ StrictEq(r.disease, Str(selected[k]))
                               /\ JsString(r.year) = common[i]))]]]

\* a line chart over the years of any selected disease
buildMultiSeriesPadded(data, selected) ==
  LET common == SortTexts(AnyYears(data, selected))
  IN [drawn |-> TRUE, labels |-> common, datasets |-> SeriesOf(data, selected, common)]

\* map.js buildMultiSeries for a non-empty selection: labels and datasets
buildMultiSeries(data, selected) ==
  LET common == CommonYears(data, selected)
  IN [drawn |-> TRUE, labels |-> common, datasets |-> SeriesOf(data, selected, common)]

ColumnTexts(data, field) == [i \in 1..Len(data) |-> JsString(data[i][field])]

\* the rows of one state and year
CellRows(data, s, y) ==
  SelectSeq(data, LAMBDA d : JsString(d.state) = s /\ JsString(d.year) = y)

\* one value of a box: the sum of the cell, or its rate from the population
\* of the first row of the cell
BoxValue(data, s, y, norm) ==
  LET cell == CellRows(data, s, y)
      sum == SumOrZero(cell)
      pop == IF cell = <<>> THEN Num(1) ELSE Or(ToNumber(cell[1].population), Num(1))
  IN IF norm = "per100k"
     THEN JsMul(JsDiv(sum, MathMax(pop, Num(1))), Hundred_k)
     ELSE sum

\* map.js buildBoxPlot with the box plot controller registered
buildBoxPlot(allData, group, norm) ==
  LET years == SortTexts(RangeOf(ColumnTexts(allData, "year")))
  IN IF group = "byYear"
     THEN LET states == UniqueInOrder(ColumnTexts(allData, "state"))
          IN [drawn |-> TRUE, type |-> "boxplot", labels |-> years,
              data |-> [i \in 1..Len(years) |->
                          [k \in 1..Len(states) |->
                             BoxValue(allData, states[k], years[i], norm)]]]
     ELSE LET states == SortTexts(RangeOf(ColumnTexts(allData, "state")))
          IN [drawn |-> TRUE, type |-> "boxplot", labels |-> states,
              data |-> [k \in 1..Len(states) |->
                          [i \in 1..Len(years) |->
                             BoxValue(allData, states[k], years[i], norm)]]]

Wrap(vals) == [i \in 1..Len(vals) |-> [val |-> vals[i]]]

\* a median that takes the upper of the two middle values
MedianUpper(vals) ==
  LET sorted == ArraySort(Wrap(vals), "val_asc")
      mid == Len(vals) \div 2
  IN IF vals = <<>> THEN Num(0) ELSE sorted[mid + 1].val

\* vals.sort((a,b)=>a-b); vals.length ? (vals.length%2 ? vals[mid]
\* : (vals[mid-1]+vals[mid])/2) : 0     (mid is 0-based in the script)
Median(vals) ==
  LET sorted == ArraySort(Wrap(vals), "val_asc")
      mid == Len(vals) \div 2
  IN IF vals = <<>> THEN Num(0)
     ELSE IF Len(vals) % 2 = 1 THEN sorted[mid + 1].val
     ELSE JsDiv(JsAdd(sorted[mid].val, sorted[mid + 1].val), Num(2))

FallbackLimit == 20

\* map.js (robust revision) buildBoxPlot without the box plot controller:
\* a bar chart of medians
buildBoxPlotFallback(allData, group) ==
  LET years == UniqueInOrder(ColumnTexts(allData, "year"))
      states == UniqueInOrder(ColumnTexts(allData, "state"))
      sum(s, y) == SumOrZero(CellRows(allData, s, y))
  IN IF group = "byYear"
     THEN LET labels == SortTexts(RangeOf(years))
          IN [drawn |-> TRUE, type |-> "bar", labels |-> labels,
              data |-> [i \in 1..Len(labels) |->
                          Median([k \in 1..Len(states) |-> sum(states[k], labels[i])])]]
     ELSE LET labels == SortTexts(RangeOf(states))
          IN [drawn |-> TRUE, type |-> "bar", labels |-> Slice(labels, FallbackLimit),
              data |-> Slice([k \in 1..Len(labels) |->
                                Median([i \in 1..Len(years) |-> sum(labels[k], years[i])])],
                             FallbackLimit)]

NoTable == [kind |-> "none"]

\* map.js renderSummaryTable for a non-empty aggregation: the three rows
renderSummaryTable(byState) ==
  LET rows == ArraySort(EntryRows(byState), "cases_desc")
  IN [kind |-> "table",
      highest |-> rows[1],
      median |-> rows[(Len(rows) \div 2) + 1],
      lowest |-> rows[Len(rows)]]

(***************************************************************************)
(* The charts of the state page (defensive revision).                      *)
(***************************************************************************)
TopFallback == 5

\* the elements init of the state page checks for
RequiredIds ==
  {"stateMap", "stateTitle", "diseaseYearText", "stateTotalCases", "statePopulation",
   "stateDensity", "chartA_stateTS", "chartB_statePer100k", "chartC_stateCompare",
   "chartD_stateScatter", "chartE_stateSunburst", "chartF_stateHeatmap", "backToMap"}

\* the controls of the state page
StateControlIds ==
  {"chartA_norm", "chartA_axis", "stateDiseaseSelect", "stateScatterX", "stateScatterY"}

\* the disease selector and the two axis selectors of the state page: the
\* options and the selected options of the multiple select, the options the
\* user picked last, the diseases chart C shows, the change listeners on
\* each selector, and the draws of charts C and D by the running handler
NoSelectors ==
  [options |-> <<>>, selected |-> {}, chosen |-> {}, drawnFor |-> {},
   listeners |-> 0, scatterX |-> 0, scatterY |-> 0,
   axes |-> <<"population", "cases">>, redraws |-> 0, scatterDraws |-> 0]

NoStateView ==
  [chartA |-> NoChart, chartB |-> NoChart, chartC |-> NoChart, chartD |-> NoChart,
   chartE |-> NoChart, chartF |-> NoChart, stateMap |-> FALSE, wired |-> {},
   warnings |-> {}, selectors |-> NoSelectors]

\* the rows of the state of the page
StateRows(allRows_, qstate) == SelectSeq(allRows_, LAMBDA r : StrictEq(r.state, qstate))

\* the sorted years present for the state
StateYears(allRows_, qstate) ==
  SortTexts({JsString(r.year) : r \in RangeOf(StateRows(allRows_, qstate))})

\* the cases of the state in one year, of the queried disease when one is set
YearCases(allRows_, qstate, disease, y) ==
  SumOrZero(SelectSeq(allRows_,
    LAMBDA r : /\ StrictEq(r.state, qstate) /\ StrictEq(r.year, Str(y))
               /\ (~Truthy(disease) \/ StrictEq(r.disease, disease))))

\* (allRows.find(r=> r.state === Qobj.state) || {}).population || 1
StatePopulation(allRows_, qstate) ==
  LET rows == StateRows(allRows_, qstate)
  IN IF rows = <<>> THEN Num(1) ELSE Or(rows[1].population, Num(1))

\* state.js drawStateTimeSeries: labels and values
drawStateTimeSeries(allRows_, qstate, disease, norm) ==
  LET years == StateYears(allRows_, qstate)
      pop == StatePopulation(allRows_, qstate)
  IN [drawn |-> TRUE, type |-> "line", labels |-> years,
      data |-> [i \in 1..Len(years) |->
                  LET v == YearCases(allRows_, qstate, disease, years[i])
                  IN IF norm = "per100k"
                     THEN JsMul(JsDiv(v, MathMax(pop, Num(1))), Hundred_k)
                     ELSE v]]

\* state.js drawStatePer100k
drawStatePer100k(allRows_, qstate, disease) ==
  [drawStateTimeSeries(allRows_, qstate, disease, "per100k") EXCEPT !.type = "bar"]

\* the value of byYear[year][key], Undef when the key was never written
CellOf(byYear, year, key) ==
  LET ys == {i \in 1..Len(byYear) : byYear[i].year = year}
  IN IF ys = {} THEN Undef
     ELSE LET cells == byYear[CHOOSE i \in ys : TRUE].cells
              ks == {k \in 1..Len(cells) : cells[k].key = key}
          IN IF ks = {} THEN Undef ELSE cells[CHOOSE k \in ks : TRUE].total

\* byYear[year][key] = value, a new key goes last
PutCell(byYear, year, key, value) ==
  LET ys == {i \in 1..Len(byYear) : byYear[i].year = year}
      withYear == IF ys = {} THEN Append(byYear, [year |-> year, cells |-> <<>>])
                  ELSE byYear
      i == CHOOSE x \in 1..Len(withYear) : withYear[x].year = year
      cells == withYear[i].cells
      ks == {k \in 1..Len(cells) : cells[k].key = key}
  IN IF ks = {}
     THEN [withYear EXCEPT ![i].cells = Append(cells, [key |-> key, total |-> value])]
     ELSE [withYear EXCEPT ![i].cells[CHOOSE k \in ks : TRUE].total = value]

\* the forEach of drawSunburst: the cell written is byYear[year][r.disease ||
\* 'Unknown'], the cell read is byYear[year][r.disease]
RECURSIVE SunburstByYear(_)
SunburstByYear(rows) ==
  IF rows = <<>> THEN <<>>
  ELSE LET acc == SunburstByYear(Front(rows))
           r == Last(rows)
           year == JsString(Or(r.year, Str("Unknown")))
           old == Or(CellOf(acc, year, JsString(r.disease)), Num(0))
       IN PutCell(acc, year, JsString(Or(r.disease, Str("Unknown"))),
                  JsAdd(old, CasesOrZero(r)))

\* allDiseases[d] = (allDiseases[d]||0) + byYear[y][d] over the sorted years
RECURSIVE AddCells(_, _)
AddCells(entries, cells) ==
  IF cells = <<>> THEN entries
  ELSE LET acc == AddCells(entries, Front(cells))
           c == Last(cells)
           hit == {i \in 1..Len(acc) : acc[i].key = c.key}
       IN IF hit = {} THEN Append(acc, [key |-> c.key, total |-> JsAdd(Num(0), c.total)])
          ELSE [acc EXCEPT ![CHOOSE i \in hit : TRUE].total =
                             JsAdd(Or(@, Num(0)), c.total)]

YearCells(byYear, y) == byYear[CHOOSE i \in 1..Len(byYear) : byYear[i].year = y].cells

RECURSIVE AllDiseases(_, _)
AllDiseases(byYear, years) ==
  IF years = <<>> THEN <<>>
  ELSE AddCells(AllDiseases(byYear, Front(years)), YearCells(byYear, Last(years)))

\* state.js drawSunburst without the sunburst controller: a stacked bar of
\* the top diseases over the years
SunburstFallback(byYear) ==
  LET years == SortTexts({byYear[i].year : i \in 1..Len(byYear)})
      totals == AllDiseases(byYear, years)
      topDiseases == TopList(totals, TopFallback)
  IN [drawn |-> TRUE, type |-> "bar", labels |-> years,
      totals |-> totals,
      datasets |-> [k \in 1..Len(topDiseases) |->
                      [label |-> topDiseases[k],
                       data |-> [i \in 1..Len(years) |->
                                   Or(CellOf(byYear, years[i], topDiseases[k]), Num(0))]]]]

\* state.js drawSunburst once its canvas is found
drawSunburst(allRows_, qstate, pl) ==
  LET byYear == SunburstByYear(StateRows(allRows_, qstate))
  IN IF "sunburst" \in pl
     THEN [drawn |-> TRUE, type |-> "sunburst", tree |-> byYear]
     ELSE SunburstFallback(byYear)

\* the sorted diseases of the rows of the state
StateDiseases(allRows_, qstate) ==
  SortTexts({JsString(r.disease) : r \in RangeOf(StateRows(allRows_, qstate))})

FirstOptions(options, n) ==
  {options[i] : i \in 1..(IF Len(options) < n THEN Len(options) ELSE n)}

\* state.js drawStateCompare: the selector is filled, and its first two
\* options selected, only while it has no option
drawStateCompare(s, allRows_, qstate, d) ==
  IF "chartC_stateCompare" \notin d THEN s
  ELSE LET diseases == StateDiseases(allRows_, qstate)
           sel == "stateDiseaseSelect" \in d
           fill == sel /\ s.options = <<>>
           selected == IF fill THEN FirstOptions(diseases, 2) ELSE s.selected
       IN [s EXCEPT !.options = IF fill THEN diseases ELSE @,
                    !.selected = selected,
                    !.drawnFor = IF sel THEN selected ELSE FirstOptions(diseases, 2),
                    !.redraws = @ + 1]

\* state.js drawStateScatter
drawStateScatter(s, d) ==
  IF "chartD_stateScatter" \notin d THEN s ELSE [s EXCEPT !.scatterDraws = @ + 1]

\* state.js init: drawStateCompare and drawStateScatter, then one listener
\* on each selector that exists
StateSelectors(allRows_, qstate, d) ==
  [drawStateScatter(drawStateCompare(NoSelectors, allRows_, qstate, d), d) EXCEPT
     !.listeners = IF "stateDiseaseSelect" \in d THEN 1 ELSE 0,
     !.scatterX = IF "stateScatterX" \in d THEN 1 ELSE 0,
     !.scatterY = IF "stateScatterY" \in d THEN 1 ELSE 0]

\* state.js (first revision) drawStateCompare, its selector and canvas
\* present: the options are written anew, which leaves none selected, and
\* one more listener, a new function each time, is added
drawStateCompare_v1(s, rows) ==
  [s EXCEPT !.options = SortTexts({JsString(Get(r, "disease")) : r \in RangeOf(rows)}),
            !.selected = {}, !.drawnFor = {},
            !.redraws = @ + 1, !.listeners = @ + 1]

\* state.js (first revision) drawStateScatter: addEventListener with the
\* function drawStateScatter itself, which a selector holds at most once
drawStateScatter_v1(s) ==
  [s EXCEPT !.scatterDraws = @ + 1, !.scatterX = 1, !.scatterY = 1]

\* the six draws of init, each returning at once when its canvas is absent
StateDraws(allRows_, qstate, disease, ctl, d, pl) ==
  [NoStateView EXCEPT
     !.selectors = StateSelectors(allRows_, qstate, d),
     !.chartA = IF "chartA_stateTS" \in d
                THEN drawStateTimeSeries(allRows_, qstate, disease,
                       IF "chartA_norm" \in d /\ ctl.chartA_norm # ""
                       THEN ctl.chartA_norm ELSE "absolute")
                ELSE NoChart,
     !.chartB = IF "chartB_statePer100k" \in d
                THEN drawStatePer100k(allRows_, qstate, disease) ELSE NoChart,
     !.chartC = IF "chartC_stateCompare" \in d
                THEN [drawn |-> TRUE, type |-> "line"] ELSE NoChart,
     !.chartD = IF "chartD_stateScatter" \in d
                THEN [drawn |-> TRUE, type |-> "scatter"] ELSE NoChart,
     !.chartE = IF "chartE_stateSunburst" \in d
                THEN drawSunburst(allRows_, qstate, pl) ELSE NoChart,
     !.chartF = IF "chartF_stateHeatmap" \in d
                THEN [drawn |-> TRUE,
                      type |-> IF "matrix" \in pl THEN "matrix" ELSE "table"]
                ELSE NoChart,
     !.wired = StateControlIds \cap d,
     !.warnings =
        (IF "chartE_stateSunburst" \in d /\ "sunburst" \notin pl
         THEN {"Sunburst plugin missing"} ELSE {}) \cup
        (IF "chartF_stateHeatmap" \in d /\ "matrix" \notin pl
         THEN {"Matrix plugin missing"} ELSE {})]

(***************************************************************************)
(* The draw pass of the map page.  A view holds what the page shows; a     *)
(* step that throws records the element it missed in thrown and every      *)
(* later step of the same call chain is skipped.                           *)
(***************************************************************************)
NoSelect == [options |-> <<>>, selected |-> <<>>]

NoView ==
  [casesMap |-> FALSE, casesByStateChart |-> NoChart, histChart |-> NoChart,
   scatterChart |-> NoChart, multiChart |-> NoChart, boxChart |-> NoChart,
   multiSelect |-> NoSelect, summaryTable |-> NoTable, wired |-> {},
   thrown |-> "", uncaught |-> {}, warnings |-> {},
   boxOf |-> <<>>, boxParses |-> <<>>]

\* document.getElementById(id) is null and a member of it is read
Throw(v, id) == [v EXCEPT !.thrown = id]

Running(v) == v.thrown = ""

\* the ids the control listeners are attached to, in the order of init
ControlIds ==
  <<"casesSortSelect", "histNorm", "scatterColorBy", "scatterPerCapita",
    "diseaseMultiSelect", "boxGroup", "boxNorm", "boxAxis">>

\* map.js init, lines 236-243: the listeners attached before the first
\* missing control ends init
WiredUnguarded(d) ==
  {ControlIds[i] : i \in {j \in 1..Len(ControlIds) :
                            \A k \in 1..j : ControlIds[k] \in d}}

\* map.js (robust revision) init: a listener for every control present
WiredGuarded(d) == {ControlIds[i] : i \in {j \in 1..Len(ControlIds) : ControlIds[j] \in d}}

\* buildMaps: L.map needs its container
DrawMaps(v, d) ==
  IF ~Running(v) THEN v
  ELSE IF "casesMap" \notin d THEN Throw(v, "casesMap")
  ELSE [v EXCEPT !.casesMap = TRUE]

DrawCasesByStateBar(v, byState, sortMode, d) ==
  IF ~Running(v) THEN v
  ELSE IF "casesByStateBar" \notin d THEN Throw(v, "casesByStateBar")
  ELSE [v EXCEPT !.casesByStateChart = buildCasesByStateBar(byState, sortMode)]

DrawHistogram(v, byState, ctl, d) ==
  IF ~Running(v) THEN v
  ELSE IF "histNorm" \notin d THEN Throw(v, "histNorm")
  ELSE IF byState = <<>> THEN v
  ELSE IF "casesHistogram" \notin d THEN Throw(v, "casesHistogram")
  ELSE [v EXCEPT !.histChart = buildHistogram(byState, ctl.histNorm)]

DrawHistogram_v1(v, byState, ctl, d) ==
  IF ~Running(v) THEN v
  ELSE IF "histNorm" \notin d THEN Throw(v, "histNorm")
  ELSE IF byState = <<>> THEN v
  ELSE IF "casesHistogram" \notin d THEN Throw(v, "casesHistogram")
  ELSE [v EXCEPT !.histChart = buildHistogram_v1(byState, ctl.histNorm)]

DrawHistogram_v2(v, byState, ctl, d) ==
  IF ~Running(v) THEN v
  ELSE IF byState = <<>> THEN v
  ELSE IF "casesHistogram" \notin d THEN Throw(v, "casesHistogram")
  ELSE [v EXCEPT !.histChart =
          buildHistogram(byState, IF "histNorm" \in d THEN ctl.histNorm ELSE "absolute")]

\* buildScatter: the points of the chart
ScatterChart(byState, perCap) ==
  [drawn |-> TRUE,
   points |-> [i \in 1..Len(byState) |->
                 [x |-> Or(byState[i].density, Num(0)),
                  y |-> IF perCap THEN Or(byState[i].per100k, Num(0))
                        ELSE Or(byState[i].cases, Num(0)),
                  label |-> byState[i].state]]]

\* the aggregation after buildHistogram(byState): the values and the bins
\* are new arrays
AggAfterHistogram(byState, norm) ==
  CallFrame(byState, HistValues(byState, norm)).byState

\* the aggregation after buildScatter(byState): the points are new objects
AggAfterScatter(byState, perCap) ==
  CallFrame(byState, ScatterChart(byState, perCap)).byState

\* the aggregation after buildAllCharts and renderSummaryTable
AggAfterDraws(byState, ctl) ==
  AggAfterTable(
    AggAfterScatter(
      AggAfterHistogram(AggAfterBar(byState, "cases_desc"), ctl.histNorm),
      ctl.scatterPerCapita))

DrawScatter(v, byState, ctl, d) ==
  IF ~Running(v) THEN v
  ELSE IF "scatterPerCapita" \notin d THEN Throw(v, "scatterPerCapita")
  ELSE IF "scatterDensityCases" \notin d THEN Throw(v, "scatterDensityCases")
  ELSE [v EXCEPT !.scatterChart = ScatterChart(byState, ctl.scatterPerCapita)]

DrawScatter_v1(v, byState, ctl, d) ==
  IF ~Running(v) THEN v
  ELSE IF "scatterPerCapita" \notin d THEN Throw(v, "scatterPerCapita")
  ELSE IF "scatterColorBy" \notin d THEN Throw(v, "scatterColorBy")
  ELSE IF "scatterDensityCases" \notin d THEN Throw(v, "scatterDensityCases")
  ELSE [v EXCEPT !.scatterChart = ScatterChart(byState, ctl.scatterPerCapita)]

DrawScatter_v2(v, byState, ctl, d) ==
  IF ~Running(v) THEN v
  ELSE IF "scatterDensityCases" \notin d THEN Throw(v, "scatterDensityCases")
  ELSE [v EXCEPT !.scatterChart =
          ScatterChart(byState, "scatterPerCapita" \in d /\ ctl.scatterPerCapita)]

\* buildMultiSeries(allData)
DrawMultiSeries(v, data, d) ==
  IF ~Running(v) THEN v
  ELSE IF "diseaseMultiSelect" \notin d THEN Throw(v, "diseaseMultiSelect")
  ELSE IF v.multiSelect.selected = <<>> THEN v
  ELSE IF "multiDiseaseSeries" \notin d THEN Throw(v, "multiDiseaseSeries")
  ELSE [v EXCEPT !.multiChart = buildMultiSeries(data, v.multiSelect.selected)]

DrawMultiSeries_v2(v, data, d) ==
  IF ~Running(v) THEN v
  ELSE IF "diseaseMultiSelect" \notin d THEN v
  ELSE IF v.multiSelect.selected = <<>> THEN v
  ELSE IF "multiDiseaseSeries" \notin d THEN Throw(v, "multiDiseaseSeries")
  ELSE [v EXCEPT !.multiChart = buildMultiSeries(data, v.multiSelect.selected)]

\* buildMultiSeries() of the first charts revision called without its
\* argument: allData.filter is read from undefined once a disease is selected
DrawMultiSeriesNoArg_v1(v, d) ==
  IF ~Running(v) THEN v
  ELSE IF "diseaseMultiSelect" \notin d THEN Throw(v, "diseaseMultiSelect")
  ELSE IF v.multiSelect.selected = <<>> THEN v
  ELSE Throw(v, "allData")

FillMultiDiseaseSelector(v, allData, d) ==
  IF ~Running(v) THEN v
  ELSE IF "diseaseMultiSelect" \notin d THEN Throw(v, "diseaseMultiSelect")
  ELSE [v EXCEPT !.multiSelect = populateMultiDiseaseSelector(allData)]

\* the first charts revision ends populateMultiDiseaseSelector with
\* buildMultiSeries(allData)
FillMultiDiseaseSelector_v1(v, allData, d) ==
  DrawMultiSeries(FillMultiDiseaseSelector(v, allData, d), allData, d)

FillMultiDiseaseSelector_v2(v, allData, d) ==
  IF ~Running(v) THEN v
  ELSE IF "diseaseMultiSelect" \notin d THEN v
  ELSE [v EXCEPT !.multiSelect = populateMultiDiseaseSelector(allData)]

\* the first control of the box plot the document lacks, "" when it has all
MissingBoxControl(d) ==
  IF "boxGroup" \notin d THEN "boxGroup"
  ELSE IF "boxNorm" \notin d THEN "boxNorm"
  ELSE IF "boxAxis" \notin d THEN "boxAxis"
  ELSE ""

\* the values of boxGroup, boxNorm and boxAxis a call of buildBoxPlot read
BoxControls(ctl) == <<ctl.boxGroup, ctl.boxNorm, ctl.boxAxis>>

\* boxOf: the control values the chart on the canvas was drawn from
DrawBoxPlot(v, allData, ctl, d, pl) ==
  IF ~Running(v) THEN v
  ELSE IF MissingBoxControl(d) # "" THEN Throw(v, MissingBoxControl(d))
  ELSE IF "boxplotCases" \notin d THEN Throw(v, "boxplotCases")
  ELSE IF "boxplot" \notin pl THEN Throw(v, "boxplot controller")
  ELSE [v EXCEPT !.boxChart = buildBoxPlot(allData, ctl.boxGroup, ctl.boxNorm),
                 !.boxOf = BoxControls(ctl)]

\* robust revision: the canvas is looked up first, without the controller a
\* bar chart of medians is drawn, with it nothing is
DrawBoxPlot_v2(v, allData, ctl, d, pl) ==
  IF ~Running(v) THEN v
  ELSE IF "boxplotCases" \notin d THEN v
  ELSE IF "boxplot" \notin pl
       THEN [v EXCEPT !.boxChart =
               buildBoxPlotFallback(allData,
                 IF "boxGroup" \in d /\ ctl.boxGroup # "" THEN ctl.boxGroup ELSE "byYear"),
                      !.warnings = @ \cup {"Boxplot plugin not available"}]
  ELSE v

DrawSummaryTable(v, byState, d) ==
  IF ~Running(v) THEN v
  ELSE IF byState = <<>> THEN v
  ELSE IF "summaryTableContainer" \notin d THEN Throw(v, "summaryTableContainer")
  ELSE [v EXCEPT !.summaryTable = renderSummaryTable(byState)]

TextTable(text) == [kind |-> "text", text |-> text]

DrawSummaryTable_v2(v, byState, d) ==
  IF ~Running(v) THEN v
  ELSE IF byState = <<>>
       THEN (IF "summaryTableContainer" \in d
             THEN [v EXCEPT !.summaryTable = TextTable("No data for selection")]
             ELSE v)
  ELSE IF "summaryTableContainer" \notin d THEN Throw(v, "summaryTableContainer")
  ELSE [v EXCEPT !.summaryTable = renderSummaryTable(byState)]

\* map.js buildAllCharts
buildAllCharts(v, allData, byState, ctl, d, pl) ==
  LET bar == DrawCasesByStateBar(v, byState, "cases_desc", d)
      hist == DrawHistogram(bar, byState, ctl, d)
      scatter == DrawScatter(hist, byState, ctl, d)
      select == FillMultiDiseaseSelector(scatter, allData, d)
      series == DrawMultiSeries(select, allData, d)
  IN DrawBoxPlot(series, allData, ctl, d, pl)

\* map.js (robust revision) buildAllCharts
buildAllCharts_v2(v, allData, byState, ctl, d, pl) ==
  LET bar == DrawCasesByStateBar(v, byState, "cases_desc", d)
      hist == DrawHistogram_v2(bar, byState, ctl, d)
      scatter == DrawScatter_v2(hist, byState, ctl, d)
      select == FillMultiDiseaseSelector_v2(scatter, allData, d)
      series == DrawMultiSeries_v2(select, allData, d)
  IN DrawBoxPlot_v2(series, allData, ctl, d, pl)

\* the then callback of map.js init after the assignments
MapDraws(v, allData, byState, ctl, d, pl) ==
  LET maps == DrawMaps(v, d)
      charts == buildAllCharts(maps, allData, byState, ctl, d, pl)
      table == DrawSummaryTable(charts, byState, d)
  IN FillMultiDiseaseSelector(table, allData, d)

\* the then callback of map.js (robust revision) init after the assignments
MapDraws_v2(v, allData, byState, ctl, d, pl) ==
  LET maps == DrawMaps(v, d)
      charts == buildAllCharts_v2(maps, allData, byState, ctl, d, pl)
      table == DrawSummaryTable_v2(charts, byState, d)
  IN FillMultiDiseaseSelector_v2(table, allData, d)

\* first charts revision: one value of a box, from the parsed records
BoxValue_v1(data, s, y, norm, byYear) ==
  LET cell == SelectSeq(data, LAMBDA r : StrictEq(r.state, Str(s)) /\ StrictEq(r.year, Str(y)))
      sum == SumOrZero(cell)
      pop == IF cell = <<>> THEN Num(1) ELSE ToNumber(Or(cell[1].population, Num(1)))
  IN IF norm # "per100k" THEN sum
     ELSE IF byYear /\ cell = <<>> THEN Num(0)
     ELSE JsMul(JsDiv(sum, pop), Hundred_k)

\* first charts revision buildBoxPlot, the complete callback of its own parse
buildBoxPlot_v1(records, group, norm) ==
  LET data == SelectSeq(records, LAMBDA x : Truthy(x.state) /\ Truthy(x.year))
      years == SortTexts(RangeOf(ColumnTexts(data, "year")))
  IN IF group = "byYear"
     THEN LET states == UniqueInOrder(ColumnTexts(data, "state"))
          IN [drawn |-> TRUE, type |-> "boxplot", labels |-> years,
              data |-> [i \in 1..Len(years) |->
                          [k \in 1..Len(states) |->
                             BoxValue_v1(data, states[k], years[i], norm, TRUE)]]]
     ELSE LET states == SortTexts(RangeOf(ColumnTexts(data, "state")))
          IN [drawn |-> TRUE, type |-> "boxplot", labels |-> states,
              data |-> [k \in 1..Len(states) |->
                          [i \in 1..Len(years) |->
                             BoxValue_v1(data, states[k], years[i], norm, FALSE)]]]

\* the controls are read at once, the chart is drawn when the download of
\* the call completes; a throw in that callback reaches no handler
DrawBoxPlot_v1(v, records, ctl, d, pl, csvArrives) ==
  IF ~Running(v) THEN v
  ELSE IF MissingBoxControl(d) # "" THEN Throw(v, MissingBoxControl(d))
  ELSE IF ~csvArrives THEN v
  ELSE IF "boxplotCases" \notin d THEN [v EXCEPT !.uncaught = @ \cup {"boxplotCases"}]
  ELSE IF "boxplot" \notin pl THEN [v EXCEPT !.uncaught = @ \cup {"boxplot controller"}]
  ELSE [v EXCEPT !.boxChart = buildBoxPlot_v1(records, ctl.boxGroup, ctl.boxNorm),
                 !.boxOf = BoxControls(ctl)]

\* first charts revision buildBoxPlot up to Papa.parse: the controls are
\* read and the download of the dataset is started
StartBoxParse_v1(v, ctl, d) ==
  IF ~Running(v) THEN v
  ELSE IF MissingBoxControl(d) # "" THEN Throw(v, MissingBoxControl(d))
  ELSE [v EXCEPT !.boxParses = Append(@, BoxControls(ctl))]

\* the complete callback of the k-th download in flight, with the control
\* values its call read
EndBoxParse_v1(v, k, records, d, pl) ==
  LET read == v.boxParses[k]
      rest == [v EXCEPT !.boxParses = SubSeq(@, 1, k - 1) \o SubSeq(@, k + 1, Len(@))]
  IN IF "boxplotCases" \notin d THEN [rest EXCEPT !.uncaught = @ \cup {"boxplotCases"}]
     ELSE IF "boxplot" \notin pl THEN [rest EXCEPT !.uncaught = @ \cup {"boxplot controller"}]
     ELSE [rest EXCEPT !.boxChart = buildBoxPlot_v1(records, read[1], read[2]),
                       !.boxOf = read]

DrawCasesByStateBar_v1(v, byState, ctl, d) ==
  IF ~Running(v) THEN v
  ELSE IF "casesSortSelect" \notin d THEN Throw(v, "casesSortSelect")
  ELSE DrawCasesByStateBar(v, byState,
         IF ctl.casesSortSelect = "" THEN "cases_desc" ELSE ctl.casesSortSelect, d)

\* map.js (first charts revision) buildAllCharts
buildAllCharts_v1(v, allData, byState, ctl, d, pl, csvArrives) ==
  LET bar == DrawCasesByStateBar_v1(v, byState, ctl, d)
      hist == DrawHistogram_v1(bar, byState, ctl, d)
      scatter == DrawScatter_v1(hist, byState, ctl, d)
      series == DrawMultiSeries(scatter, allData, d)
  IN DrawBoxPlot_v1(series, allData, ctl, d, pl, csvArrives)

\* the then callback of map.js (first charts revision) init
MapDraws_v1(v, allData, byState, ctl, d, pl, csvArrives) ==
  LET maps == DrawMaps(v, d)
      charts == buildAllCharts_v1(maps, allData, byState, ctl, d, pl, csvArrives)
      table == DrawSummaryTable(charts, byState, d)
  IN FillMultiDiseaseSelector_v1(table, allData, d)

\* what init leaves behind when it throws while attaching the listeners
WiringErrors(d) ==
  IF \A i \in 1..Len(ControlIds) : ControlIds[i] \in d THEN {}
  ELSE {ControlIds[CHOOSE i \in 1..Len(ControlIds) :
                     ControlIds[i] \notin d /\ \A k \in 1..(i - 1) : ControlIds[k] \in d]}

\* the console after a page script ran: the rejection the catch logged and
\* the errors no handler caught
ConsoleOf(v, caught) ==
  (IF caught THEN {"Load error"} ELSE {}) \cup
  (IF v.uncaught # {} THEN {"Uncaught TypeError"} ELSE {}) \cup v.warnings


(***************************************************************************)
(* The dataset file and the query parameters.                              *)
(***************************************************************************)
MaxRows == 2

CsvRow(st, yr, di, ca, po, de) ==
  [state |-> Str(st), year |-> Str(yr), disease |-> Str(di), cases |-> Str(ca),
   population |-> Str(po), population_density |-> Str(de)]

\* the records a dataset file is made of: repeated and differing population
\* figures, unparseable and negative counts, blank state and blank year
CsvPool ==
  { CsvRow("CA", "2020", "Flu", "100", "1000", "10"),
    CsvRow("CA", "2021", "Flu", "200", "2000", "20"),
    CsvRow("CA", "2020", "Cold", "abc", "0", ""),
    CsvRow("NY", "2020", "Flu", "50", "", "30"),
    CsvRow("", "2020", "Flu", "7", "500", "5"),
    CsvRow("NY", "", "Flu", "30", "3000", "30"),
    CsvRow("NY", "2021", "Cold", "-5", "3000", "30") }

Datasets == UNION {[1..n -> CsvPool] : n \in 0..MaxRows}

DiseaseParams == {Null, Str("Flu"), Str("Cold")}
YearParams == {Null, Str("2020"), Str("2021")}
StateParams == {Str("CA"), Str("NY")}

Unset == [set |-> FALSE, rows |-> <<>>]
Cached(rows) == [set |-> TRUE, rows |-> rows]

RECURSIVE SumCases(_)
SumCases(rows) ==
  IF rows = <<>> THEN Num(0)
  ELSE JsAdd(SumCases(SubSeq(rows, 1, Len(rows) - 1)), rows[Len(rows)].cases)

RECURSIVE SumCasesOrZero(_)
SumCasesOrZero(rows) ==
  IF rows = <<>> THEN Num(0)
  ELSE JsAdd(SumCasesOrZero(SubSeq(rows, 1, Len(rows) - 1)),
             Or(ToNumber(rows[Len(rows)].cases), Num(0)))

(***************************************************************************)
(* Page initialisers.  Each models one document load: the script state of  *)
(* the page is rebuilt, the window caches are read and written as the      *)
(* script does.                                                            *)
(***************************************************************************)

\* the values the controls hold when nothing was chosen
DefaultControls ==
  [casesSortSelect |-> "cases_desc", histNorm |-> "absolute",
   scatterPerCapita |-> FALSE, boxGroup |-> "byYear", boxNorm |-> "absolute",
   boxAxis |-> "linear", chartA_norm |-> "absolute",
   diseaseSelect |-> "", yearSelect |-> "", yearOptions |-> {},
   yearDisabled |-> TRUE, searchDisabled |-> TRUE]

\* main.js DOMContentLoaded handler; the error callback of Papa.parse logs
\* and raises an alert
MainInit ==
  /\ IF PHdata.set /\ Len(PHdata.rows) > 0
     THEN /\ UNCHANGED PHdata
          /\ notices' = {} /\ consoleLog' = {}
     ELSE IF net.csv = "ok"
     THEN /\ PHdata' = Cached(SelectSeq(MapSeq(normalizeRow_main, csv),
                                        LAMBDA r : Truthy(r.state) /\ Truthy(r.year)))
          /\ notices' = {} /\ consoleLog' = {}
     ELSE /\ UNCHANGED PHdata
          /\ notices' = {"Error loading dataset."}
          /\ consoleLog' = {"CSV load error"}
  /\ page' = "main"
  /\ currentDisease' = Null /\ currentYear' = Null /\ Qstate' = Null
  /\ byStateAgg' = <<>> /\ allRows' = <<>> /\ scatterPoints' = <<>>
  /\ tsYears' = {} /\ totalCases' = Num(0) /\ repeatCall' = FALSE
  /\ mapView' = NoView /\ loadState' = "done"
  /\ stateView' = NoStateView
  /\ controls' = DefaultControls
  /\ UNCHANGED <<csv, stateAll, normVars, envVars, uniqueVars, scriptVars>>

\* JSON.parse(JSON.stringify(row)): a number that is not finite comes back
\* as null
JsonValue(v) == IF v.t \in {"nan", "inf"} THEN Null ELSE v

JsonRow(r) == [k \in DOMAIN r |-> JsonValue(r[k])]

DataLoadError == "Data Load Error"

\* an entry of localStorage that JSON.parse rejects
Garbled == [set |-> TRUE, rows |-> <<>>, garbled |-> TRUE]

IsGarbled(ls) == "garbled" \in DOMAIN ls

\* part_004 loadData: the dataset it returns, the entry it leaves in
\* localStorage, whether it fetched the file, and what it showed and logged.
\* An entry is used when its text is not empty: the text of an empty array
\* is "[]".  fetch resolves for a missing file and its text parses to no row.
loadData(ls, file, outcome) ==
  LET fresh == SelectSeq(MapSeq(normalizeRow, file),
                         LAMBDA r : Truthy(r.state) /\ Truthy(r.disease) /\ Truthy(r.year))
      parseLog == IF IsGarbled(ls) THEN {"Failed to parse cached data"} ELSE {}
  IN IF ls.set /\ ~IsGarbled(ls)
     THEN [data |-> MapSeq(JsonRow, ls.rows), store |-> ls, fetched |-> FALSE,
           notices |-> {}, console |-> {}]
     ELSE IF outcome = "ok"
     THEN [data |-> fresh, store |-> Cached(fresh), fetched |-> TRUE,
           notices |-> {}, console |-> parseLog]
     ELSE IF outcome = "missing"
     THEN [data |-> <<>>, store |-> Cached(<<>>), fetched |-> TRUE,
           notices |-> {}, console |-> parseLog]
     ELSE [data |-> <<>>, store |-> Unset, fetched |-> TRUE,
           notices |-> {DataLoadError},
           console |-> parseLog \cup {"Error loading or parsing data"}]

\* part_004 DOMContentLoaded handler
MainInit_ls ==
  \E loaded \in {loadData(localStore, csv, net.csv)} :
     /\ allRows' = loaded.data
     /\ localStore' = loaded.store
     /\ notices' = loaded.notices /\ consoleLog' = loaded.console
     /\ page' = "main_ls"
     /\ currentDisease' = Null /\ currentYear' = Null /\ Qstate' = Null
     /\ byStateAgg' = <<>> /\ scatterPoints' = <<>>
     /\ tsYears' = {} /\ totalCases' = Num(0) /\ repeatCall' = FALSE
     /\ mapView' = NoView /\ loadState' = "done"
     /\ stateView' = NoStateView
     /\ controls' = DefaultControls
     /\ UNCHANGED <<csv, PHdata, stateAll, normVars, dom, plugins, net, uniqueVars,
                    scriptVars>>

\* the dataset file appears, disappears or becomes unreachable
NetChanges(outcome) ==
  /\ outcome # net.csv
  /\ net' = [net EXCEPT !.csv = outcome]
  /\ UNCHANGED <<csv, PHdata, page, currentDisease, currentYear, Qstate, byStateAgg,
                 allRows, stateAll, scatterPoints, tsYears, totalCases, repeatCall,
                 normVars, dom, plugins, localStore, viewVars, uniqueVars, scriptVars>>

\* part_005 DOMContentLoaded handler: the parsed records are cached as they
\* are; Papa.parse is given no error callback
MainInit_v1 ==
  /\ IF net.csv = "ok"
     THEN PHdata' = Cached(SelectSeq(csv, LAMBDA r : Truthy(r.state) /\ Truthy(r.disease)))
     ELSE UNCHANGED PHdata
  /\ page' = "main_v1"
  /\ currentDisease' = Null /\ currentYear' = Null /\ Qstate' = Null
  /\ byStateAgg' = <<>> /\ allRows' = <<>> /\ scatterPoints' = <<>>
  /\ tsYears' = {} /\ totalCases' = Num(0) /\ repeatCall' = FALSE
  /\ mapView' = NoView /\ loadState' = "done"
  /\ stateView' = NoStateView
  /\ controls' = DefaultControls
  /\ notices' = {} /\ consoleLog' = {}
  /\ UNCHANGED <<csv, stateAll, normVars, envVars, uniqueVars, scriptVars>>

LandingPages == {"main", "main_ls", "main_v1"}

\* the dataset the listeners of the landing page read
LandingData == IF page = "main_ls" THEN allRows ELSE PHdata.rows

\* the listeners of the two selects are attached: main.js attaches them in
\* initFromData, part_004 after a load that brought rows, part_005 always
LandingWired ==
  CASE page = "main" -> PHdata.set /\ Len(PHdata.rows) > 0
    [] page = "main_ls" -> Len(allRows) > 0
    [] page = "main_v1" -> TRUE
    [] OTHER -> FALSE

\* the values of the options a select is filled with from a column
Choices(column) ==
  CASE page = "main" ->
         {JsString(x) : x \in RangeOf(CHOOSE o \in uniqueSorted_main(column) : TRUE)}
    [] page = "main_ls" ->
         {JsString(x) : x \in RangeOf(CHOOSE o \in uniqueSorted(column) : TRUE)}
    [] OTHER -> {JsString(x) : x \in RangeOf(column)}

DiseaseChoices == Choices([i \in 1..Len(LandingData) |-> LandingData[i].disease])

YearChoices(d) ==
  LET rows == SelectSeq(LandingData, LAMBDA r : StrictEq(r.disease, Str(d)))
  IN Choices([i \in 1..Len(rows) |-> rows[i].year])

\* the change listener of diseaseSelect.  Filling yearSelect anew selects its
\* first option, whose value is empty.
DiseaseChanged(ctl, d) ==
  LET cleared == [ctl EXCEPT !.diseaseSelect = d, !.yearSelect = "", !.yearOptions = {},
                             !.yearDisabled = TRUE, !.searchDisabled = TRUE]
      filled == [ctl EXCEPT !.diseaseSelect = d, !.yearSelect = "",
                            !.yearOptions = YearChoices(d), !.yearDisabled = FALSE]
  IN IF d = "" THEN cleared
     ELSE IF page = "main" THEN filled
     ELSE [filled EXCEPT !.searchDisabled = TRUE]

\* what a listener of the landing page leaves alone
LandingFrame ==
  UNCHANGED <<csv, PHdata, page, currentDisease, currentYear, Qstate, byStateAgg,
              allRows, stateAll, scatterPoints, tsYears, totalCases, repeatCall,
              normVars, envVars, mapView, stateView, consoleLog, notices, loadState,
              uniqueVars, scriptVars>>

\* the user picks another option of diseaseSelect
ChangeDisease(d) ==
  /\ page \in LandingPages /\ LandingWired
  /\ d \in DiseaseChoices \cup {""} /\ d # controls.diseaseSelect
  /\ controls' = DiseaseChanged(controls, d)
  /\ LandingFrame

\* the user picks another option of yearSelect: searchBtn.disabled = !value
ChangeYear(y) ==
  /\ page \in LandingPages /\ LandingWired /\ ~controls.yearDisabled
  /\ y \in controls.yearOptions \cup {""} /\ y # controls.yearSelect
  /\ controls' = [controls EXCEPT !.yearSelect = y, !.searchDisabled = (y = "")]
  /\ LandingFrame

NoOutput == [by |-> "none", out |-> <<>>]

UniqueFrame ==
  UNCHANGED <<csv, PHdata, page, currentDisease, currentYear, Qstate, byStateAgg,
              allRows, stateAll, scatterPoints, tsYears, totalCases, repeatCall,
              normVars, envVars, viewVars, scriptVars, usInput>>

\* one call of uniqueSorted of main.js
CallUniqueSortedMain ==
  /\ \E out \in uniqueSorted_main(usInput) : usOutput' = [by |-> "main", out |-> out]
  /\ UniqueFrame

\* one call of uniqueSorted of the localStorage revision
CallUniqueSorted ==
  /\ \E out \in uniqueSorted(usInput) : usOutput' = [by |-> "part_004", out |-> out]
  /\ UniqueFrame

\* the elements the scripts of the map page look up by id
MapIds ==
  {"homeBtn", "casesMap", "casesSortSelect", "histNorm", "scatterColorBy",
   "scatterPerCapita", "diseaseMultiSelect", "boxGroup", "boxNorm", "boxAxis",
   "casesByStateBar", "casesHistogram", "scatterDensityCases",
   "multiDiseaseSeries", "boxplotCases", "summaryTableContainer"}

NetOk == [csv |-> "ok", geo |-> "ok"]

MapPages == {"map", "map_v1", "map_v2"}

\* the view of a map page whose init ran its synchronous part
Started(wired, errors) == [NoView EXCEPT !.wired = wired, !.uncaught = errors]

\* map.js init
MapInit(disease, year) ==
  \E data \in {SelectSeq(MapSeq(normaliseRow_map, IF PHdata.set THEN PHdata.rows ELSE csv),
                        LAMBDA x : Truthy(x.state) /\ Truthy(x.year))} :
  \E agg \in {aggregateByState(data, disease, year)} :
  \E start \in {Started(WiredUnguarded(dom), WiringErrors(dom))} :
  \E drawn \in {MapDraws(start, data, agg, DefaultControls, dom, plugins)} :
     /\ page' = "map"
     /\ currentDisease' = disease /\ currentYear' = year /\ Qstate' = Null
     /\ allRows' = <<>> /\ scatterPoints' = <<>>
     /\ tsYears' = {} /\ totalCases' = Num(0)
     /\ notices' = {}
     /\ IF "homeBtn" \notin dom
        THEN /\ mapView' = Started({}, {"homeBtn"})
             /\ consoleLog' = ConsoleOf(mapView', FALSE)
             /\ loadState' = "idle"
             /\ byStateAgg' = <<>> /\ repeatCall' = FALSE
             /\ UNCHANGED PHdata
        ELSE IF net.geo = "ok" /\ (PHdata.set \/ net.csv = "ok")
        THEN /\ PHdata' = Cached(data)
             /\ byStateAgg' = AggAfterDraws(agg, DefaultControls)
             /\ mapView' = drawn
             /\ consoleLog' = ConsoleOf(drawn, ~Running(drawn))
             /\ loadState' = "done"
             /\ repeatCall' = (page = "map" /\ disease = currentDisease
                                /\ year = currentYear /\ PHdata' = PHdata)
        ELSE /\ mapView' = start
             /\ consoleLog' = ConsoleOf(start, net.geo # "ok")
             /\ loadState' = IF net.geo # "ok" THEN "done" ELSE "pending"
             /\ byStateAgg' = <<>> /\ repeatCall' = FALSE
             /\ UNCHANGED PHdata
     /\ stateView' = NoStateView
     /\ controls' = DefaultControls
     /\ leaflet' = IF mapView'.casesMap THEN buildMaps(NoLeaflet) ELSE NoLeaflet
     /\ UNCHANGED <<csv, stateAll, normVars, envVars, uniqueVars, summaryUi, gemini, theme>>

\* map.js (first charts revision) init: the parsed records go to
\* aggregateByState and to the charts as they are
MapInit_v1(disease, year) ==
  \E agg \in {aggregateByState_v1(csv, disease, year)} :
  \E start \in {Started(WiredUnguarded(dom), WiringErrors(dom))} :
  \E drawn \in {MapDraws_v1(start, csv, agg, DefaultControls, dom, plugins, net.csv = "ok")} :
     /\ page' = "map_v1"
     /\ currentDisease' = disease /\ currentYear' = year /\ Qstate' = Null
     /\ allRows' = <<>> /\ scatterPoints' = <<>>
     /\ tsYears' = {} /\ totalCases' = Num(0)
     /\ notices' = {}
     /\ IF "homeBtn" \notin dom
        THEN /\ mapView' = Started({}, {"homeBtn"})
             /\ consoleLog' = ConsoleOf(mapView', FALSE)
             /\ loadState' = "idle"
             /\ byStateAgg' = <<>> /\ repeatCall' = FALSE
        ELSE IF net.geo = "ok" /\ net.csv = "ok"
        THEN /\ byStateAgg' = AggAfterDraws(agg, DefaultControls)
             /\ mapView' = drawn
             /\ consoleLog' = ConsoleOf(drawn, ~Running(drawn))
             /\ loadState' = "done"
             /\ repeatCall' = (page = "map_v1" /\ disease = currentDisease
                                /\ year = currentYear)
        ELSE /\ mapView' = start
             /\ consoleLog' = ConsoleOf(start, net.geo # "ok")
             /\ loadState' = IF net.geo # "ok" THEN "done" ELSE "pending"
             /\ byStateAgg' = <<>> /\ repeatCall' = FALSE
     /\ stateView' = NoStateView
     /\ controls' = DefaultControls
     /\ leaflet' = IF mapView'.casesMap THEN buildMaps_v1(NoLeaflet) ELSE NoLeaflet
     /\ UNCHANGED <<csv, PHdata, stateAll, normVars, envVars, uniqueVars,
                    summaryUi, gemini, theme>>

LoadFailedText == "Failed to load data"

\* what the catch of the robust revision leaves: the text in the summary
\* container when the document has one
Failed_v2(v, d) ==
  IF "summaryTableContainer" \in d
  THEN [v EXCEPT !.summaryTable = TextTable(LoadFailedText)]
  ELSE v

\* map.js (robust revision) init
MapInit_v2(disease, year) ==
  \E data \in {SelectSeq(MapSeq(normaliseRow_map_v2,
                               IF PHdata.set THEN PHdata.rows ELSE csv),
                        LAMBDA x : Truthy(x.state) /\ Truthy(x.year))} :
  \E agg \in {aggregateByState_v2(data, disease, year)} :
  \E start \in {Started(WiredGuarded(dom), {})} :
  \E drawn \in {MapDraws_v2(start, data, agg, DefaultControls, dom, plugins)} :
  \E caught \in {IF net.geo # "ok" THEN Failed_v2(start, dom)
                 ELSE IF Running(drawn) THEN drawn ELSE Failed_v2(drawn, dom)} :
     /\ page' = "map_v2"
     /\ currentDisease' = disease /\ currentYear' = year /\ Qstate' = Null
     /\ allRows' = <<>> /\ scatterPoints' = <<>>
     /\ tsYears' = {} /\ totalCases' = Num(0)
     /\ IF "homeBtn" \notin dom
        THEN /\ mapView' = Started({}, {"homeBtn"})
             /\ consoleLog' = ConsoleOf(mapView', FALSE)
             /\ loadState' = "idle" /\ notices' = {}
             /\ byStateAgg' = <<>> /\ repeatCall' = FALSE
             /\ UNCHANGED PHdata
        ELSE IF net.geo = "ok" /\ (PHdata.set \/ net.csv = "ok")
        THEN /\ PHdata' = Cached(data)
             /\ byStateAgg' = AggAfterDraws(agg, DefaultControls)
             /\ mapView' = caught
             /\ consoleLog' = ConsoleOf(drawn, ~Running(drawn))
             /\ notices' = IF ~Running(drawn) /\ "summaryTableContainer" \in dom
                           THEN {LoadFailedText} ELSE {}
             /\ loadState' = "done"
             /\ repeatCall' = FALSE
        ELSE /\ mapView' = IF net.geo # "ok" THEN caught ELSE start
             /\ consoleLog' = ConsoleOf(start, net.geo # "ok")
             /\ notices' = IF net.geo # "ok" /\ "summaryTableContainer" \in dom
                           THEN {LoadFailedText} ELSE {}
             /\ loadState' = IF net.geo # "ok" THEN "done" ELSE "pending"
             /\ byStateAgg' = <<>> /\ repeatCall' = FALSE
             /\ UNCHANGED PHdata
     /\ stateView' = NoStateView
     /\ controls' = DefaultControls
     /\ leaflet' = IF mapView'.casesMap THEN buildMaps_v2(NoLeaflet) ELSE NoLeaflet
     /\ UNCHANGED <<csv, stateAll, normVars, envVars, uniqueVars, summaryUi, gemini, theme>>

\* the data a listener of the map page reads
PageData == IF page = "map_v1" THEN csv ELSE PHdata.rows

\* a listener ran: what it threw reached no handler
AfterListener(v) ==
  IF Running(v) THEN v ELSE [v EXCEPT !.uncaught = @ \cup {v.thrown}]

\* what a listener of a chart of the aggregation leaves alone
ChartListenerFrame ==
  UNCHANGED <<csv, PHdata, page, currentDisease, currentYear, Qstate,
              allRows, stateAll, scatterPoints, tsYears, totalCases, repeatCall,
              normVars, envVars, stateView, notices, loadState, uniqueVars,
              scriptVars>>

ListenerFrame == ChartListenerFrame /\ UNCHANGED byStateAgg

Rearmed(v) == [v EXCEPT !.thrown = ""]

\* the change listener of casesSortSelect
ChangeCasesSort(mode) ==
  /\ page \in MapPages /\ "casesSortSelect" \in mapView.wired
  /\ controls' = [controls EXCEPT !.casesSortSelect = mode]
  /\ mapView' = AfterListener(DrawCasesByStateBar(Rearmed(mapView), byStateAgg, mode, dom))
  /\ byStateAgg' = AggAfterBar(byStateAgg, mode)
  /\ consoleLog' = consoleLog \cup ConsoleOf(mapView', FALSE)
  /\ ChartListenerFrame

\* the change listener of histNorm
ChangeHistNorm(norm) ==
  /\ page \in MapPages /\ "histNorm" \in mapView.wired
  /\ controls' = [controls EXCEPT !.histNorm = norm]
  /\ mapView' =
       AfterListener(
         CASE page = "map" -> DrawHistogram(Rearmed(mapView), byStateAgg, controls', dom)
           [] page = "map_v1" -> DrawHistogram_v1(Rearmed(mapView), byStateAgg, controls', dom)
           [] OTHER -> DrawHistogram_v2(Rearmed(mapView), byStateAgg, controls', dom))
  /\ byStateAgg' = AggAfterHistogram(byStateAgg, norm)
  /\ consoleLog' = consoleLog \cup ConsoleOf(mapView', FALSE)
  /\ ChartListenerFrame

\* the change listener of scatterPerCapita
ChangeScatterPerCapita(checked) ==
  /\ page \in MapPages /\ "scatterPerCapita" \in mapView.wired
  /\ controls' = [controls EXCEPT !.scatterPerCapita = checked]
  /\ mapView' =
       AfterListener(
         CASE page = "map" -> DrawScatter(Rearmed(mapView), byStateAgg, controls', dom)
           [] page = "map_v1" -> DrawScatter_v1(Rearmed(mapView), byStateAgg, controls', dom)
           [] OTHER -> DrawScatter_v2(Rearmed(mapView), byStateAgg, controls', dom))
  /\ byStateAgg' = AggAfterScatter(byStateAgg, checked)
  /\ consoleLog' = consoleLog \cup ConsoleOf(mapView', FALSE)
  /\ ChartListenerFrame

\* the user picks diseases; the change listener of diseaseMultiSelect calls
\* buildMultiSeries()
ChangeMultiSelect(picked) ==
  /\ page \in MapPages /\ "diseaseMultiSelect" \in mapView.wired
  /\ picked \subseteq RangeOf(mapView.multiSelect.options)
  /\ LET sel == SelectSeq(mapView.multiSelect.options, LAMBDA o : o \in picked)
         v == [Rearmed(mapView) EXCEPT !.multiSelect.selected = sel]
     IN mapView' =
          AfterListener(
            CASE page = "map" -> DrawMultiSeries(v, PageData, dom)
              [] page = "map_v1" -> DrawMultiSeriesNoArg_v1(v, dom)
              [] OTHER -> DrawMultiSeries_v2(v, PageData, dom))
  /\ consoleLog' = consoleLog \cup ConsoleOf(mapView', FALSE)
  /\ UNCHANGED controls
  /\ ListenerFrame

\* the downloads of the dataset one page has in flight for its box plot
MaxBoxParses == 2

\* the change listener of boxGroup, boxNorm or boxAxis: buildBoxPlot().  In
\* the first charts revision the call ends with its download in flight.
ChangeBoxControl(id, value) ==
  /\ page \in MapPages /\ id \in mapView.wired
  /\ page = "map_v1" => Len(mapView.boxParses) < MaxBoxParses
  /\ controls' = [controls EXCEPT ![id] = value]
  /\ mapView' =
       AfterListener(
         CASE page = "map" -> DrawBoxPlot(Rearmed(mapView), PageData, controls', dom, plugins)
           [] page = "map_v1" -> StartBoxParse_v1(Rearmed(mapView), controls', dom)
           [] OTHER -> DrawBoxPlot_v2(Rearmed(mapView), PageData, controls', dom, plugins))
  /\ consoleLog' = consoleLog \cup ConsoleOf(mapView', FALSE)
  /\ ListenerFrame

ChangeBoxGroup(group) == ChangeBoxControl("boxGroup", group)
ChangeBoxNorm(norm) == ChangeBoxControl("boxNorm", norm)
ChangeBoxAxis(axis) == ChangeBoxControl("boxAxis", axis)

\* one of the downloads in flight arrives; the network fixes no order
BoxParseCompletes(k) ==
  /\ page = "map_v1" /\ k \in 1..Len(mapView.boxParses) /\ net.csv = "ok"
  /\ mapView' = EndBoxParse_v1(mapView, k, PageData, dom, plugins)
  /\ consoleLog' = consoleLog \cup ConsoleOf(mapView', FALSE)
  /\ UNCHANGED controls
  /\ ListenerFrame

\* the layers one map is let to hold in the model
MaxLayers == 3

\* what a step on the Leaflet map leaves alone
LeafletFrame ==
  UNCHANGED <<csv, PHdata, page, currentDisease, currentYear, Qstate, byStateAgg,
              allRows, stateAll, scatterPoints, tsYears, totalCases, repeatCall,
              normVars, envVars, uniqueVars, viewVars, summaryUi, gemini, theme>>

\* buildMaps(geojson, byStateAgg) is called again on the page that init drew
CallBuildMaps ==
  /\ page \in MapPages /\ mapView.casesMap /\ leaflet.cases < MaxLayers
  /\ leaflet' = CASE page = "map" -> buildMaps(leaflet)
                   [] page = "map_v1" -> buildMaps_v1(leaflet)
                   [] OTHER -> buildMaps_v2(leaflet)
  /\ LeafletFrame

\* the user ticks or unticks an overlay of the layer control: Leaflet puts
\* the layer the control was built with on the map or takes it off
ToggleOverlay(kind, ref) ==
  /\ page \in MapPages /\ leaflet.control /\ leaflet[ref] # "none"
  /\ leaflet' = IF leaflet[ref] = "on"
                THEN [leaflet EXCEPT ![kind] = @ - 1, ![ref] = "off"]
                ELSE [leaflet EXCEPT ![kind] = @ + 1, ![ref] = "on"]
  /\ LeafletFrame

\* ---------------------------------------------------------------
\* The summary widget of the state page (summariser revision)
\* ---------------------------------------------------------------

\* callGeminiAPI: const maxRetries
maxRetries == 3

\* callGeminiAPI: let delay, in milliseconds
InitialDelay == 1000

\* what one request of callGeminiAPI can come back with: a candidate text with
\* or without grounding attributions, a body without a candidate text, a
\* rate limit, another HTTP error status, or a rejected fetch
FetchOutcomes == {"ok_sources", "ok_nosources", "malformed", "429", "http_error",
                  "network_error"}

Succeeded == {"ok_sources", "ok_nosources"}

\* the elements of the summary card before any script has touched them
NoWidget ==
  [btnDisabled |-> FALSE, loadingShown |-> FALSE, errorShown |-> FALSE,
   errorText |-> "", textShown |-> TRUE, text |-> "",
   citationsShown |-> FALSE, citations |-> ""]

\* no call of callGeminiAPI is running
NoCall ==
  [pc |-> "idle", i |-> 0, delay |-> InitialDelay, requests |-> 0,
   waits |-> <<>>, outcomes |-> <<>>, result |-> "none"]

DefaultPrompt == "Click 'Generate Summary'"

MissingParams == "Missing State, Disease, or Year in URL parameters."

FailedAfterRetries ==
  "Failed to generate summary. Please try again. (Failed to get response after multiple retries.)"

ExceededRetries ==
  "Failed to generate summary. Please try again. (Exceeded maximum API retries.)"

\* a setSummaryState that leaves the button enabled while loading
setSummaryStateEnabled(ui, state, message) ==
  [ui EXCEPT !.btnDisabled = FALSE,
             !.loadingShown = (state = "loading"),
             !.errorShown = (state = "error"),
             !.errorText = IF state = "error" THEN message ELSE "",
             !.textShown = (state # "error"),
             !.citationsShown = IF state = "error" THEN FALSE ELSE @,
             !.text = IF state = "ready" /\ message = "" THEN DefaultPrompt ELSE @]

setSummaryState(ui, state, message) ==
  [ui EXCEPT !.btnDisabled = (state = "loading"),
             !.loadingShown = (state = "loading"),
             !.errorShown = (state = "error"),
             !.errorText = IF state = "error" THEN message ELSE "",
             !.textShown = (state # "error"),
             !.citationsShown = IF state = "error" THEN FALSE ELSE @,
             !.text = IF state = "ready" /\ message = "" THEN DefaultPrompt ELSE @]

\* the state the card shows
WidgetState(ui) ==
  IF ui.loadingShown THEN "loading"
  ELSE IF ui.errorShown THEN "error" ELSE "ready"

\* callGeminiAPI up to its first await: the first request is sent
callGeminiAPI ==
  [pc |-> "fetch", i |-> 0, delay |-> InitialDelay, requests |-> 1,
   waits |-> <<>>, outcomes |-> <<>>, result |-> "none"]

\* a callGeminiAPI that neither returns nor throws when its last request fails
CompletedNeverSettles(g, outcome) ==
  LET g1 == [g EXCEPT !.outcomes = Append(@, outcome)]
  IN IF outcome = "429" /\ g.i < maxRetries - 1
     THEN [g1 EXCEPT !.pc = "wait"]
     ELSE IF outcome \in Succeeded
     THEN [g1 EXCEPT !.pc = "idle", !.result = "returned"]
     ELSE IF g.i = maxRetries - 1
     THEN [g1 EXCEPT !.pc = "pending"]
     ELSE [g1 EXCEPT !.pc = "wait"]

\* callGeminiAPI from the completion of a request to its next await or its end
Completed(g, outcome) ==
  LET g1 == [g EXCEPT !.outcomes = Append(@, outcome)]
  IN IF outcome = "429" /\ g.i < maxRetries - 1
     THEN [g1 EXCEPT !.pc = "wait"]
     ELSE IF outcome \in Succeeded
     THEN [g1 EXCEPT !.pc = "idle", !.result = "returned"]
     ELSE IF g.i = maxRetries - 1
     THEN [g1 EXCEPT !.pc = "idle", !.result = "thrown"]
     ELSE [g1 EXCEPT !.pc = "wait"]

\* callGeminiAPI from the end of a wait to its next await or its end
Waited(g) ==
  LET g1 == [g EXCEPT !.waits = Append(@, g.delay), !.delay = @ * 2, !.i = @ + 1]
  IN IF g1.i < maxRetries
     THEN [g1 EXCEPT !.pc = "fetch", !.requests = @ + 1]
     ELSE [g1 EXCEPT !.pc = "idle", !.result = "exceeded"]

\* generateSummary after callGeminiAPI has returned or thrown
Settled(ui, g) ==
  CASE g.result = "returned" ->
         setSummaryState(
           [ui EXCEPT !.text = "summary",
                      !.citations = IF g.outcomes[Len(g.outcomes)] = "ok_sources"
                                    THEN "sources" ELSE "no sources cited",
                      !.citationsShown = TRUE],
           "ready", "Summary generated successfully.")
    [] g.result = "thrown" -> setSummaryState(ui, "error", FailedAfterRetries)
    [] g.result = "exceeded" -> setSummaryState(ui, "error", ExceededRetries)
    [] OTHER -> ui

\* the frame of the handlers of the card
WidgetFrame ==
  UNCHANGED <<csv, PHdata, page, currentDisease, currentYear, Qstate, byStateAgg,
              allRows, stateAll, scatterPoints, tsYears, totalCases, repeatCall,
              normVars, envVars, uniqueVars, controls, mapView, stateView, notices,
              loadState, leaflet, theme>>

\* the click listener of generateSummaryBtn: generateSummary up to its await
ClickGenerateSummary ==
  /\ page = "state_summary" /\ ~summaryUi.btnDisabled
  /\ IF ~Truthy(currentDisease) \/ ~Truthy(currentYear) \/ ~Truthy(Qstate)
     THEN /\ summaryUi' = setSummaryState(summaryUi, "error", MissingParams)
          /\ gemini' = NoCall
     ELSE /\ summaryUi' = [setSummaryState(summaryUi, "loading", "")
                             EXCEPT !.text = "", !.citations = "",
                                    !.citationsShown = FALSE]
          /\ gemini' = callGeminiAPI
  /\ UNCHANGED consoleLog
  /\ WidgetFrame

\* a request of callGeminiAPI completes
FetchCompletes(outcome) ==
  /\ page = "state_summary" /\ gemini.pc = "fetch"
  /\ gemini' = Completed(gemini, outcome)
  /\ summaryUi' = Settled(summaryUi, gemini')
  /\ consoleLog' =
       consoleLog
         \cup (IF outcome \in Succeeded \/ (outcome = "429" /\ gemini.i < maxRetries - 1)
               THEN {} ELSE {"Gemini API call failed:"})
         \cup (IF gemini'.result = "thrown" THEN {"Summary generation error:"} ELSE {})
  /\ WidgetFrame

\* the timer of a wait of callGeminiAPI fires
TimerFires ==
  /\ page = "state_summary" /\ gemini.pc = "wait"
  /\ gemini' = Waited(gemini)
  /\ summaryUi' = Settled(summaryUi, gemini')
  /\ consoleLog' =
       consoleLog
         \cup (IF gemini'.result = "exceeded" THEN {"Summary generation error:"} ELSE {})
  /\ WidgetFrame

\* state.js (summariser revision) DOMContentLoaded handler, Papa complete
\* callback, with drawScatterPlot
StateInit_summary(qstate, disease, year, yAxisType) ==
  LET rows == SelectSeq(MapSeq(LAMBDA r : normaliseRow_summary(DynamicTyping(r)), csv),
                        LAMBDA r : /\ ~StrictEq(r.cases, Num(0))
                                   /\ Truthy(r.year) /\ Truthy(r.disease))
      stateYearDiseaseRows ==
        SelectSeq(rows, LAMBDA r : /\ StrictEq(r.state, qstate)
                                   /\ StrictEq(r.disease, disease)
                                   /\ JsString(r.year) = JsString(year))
      aggCases == SumCases(stateYearDiseaseRows)
      comparisonRows ==
        SelectSeq(rows, LAMBDA r : StrictEq(r.year, year) /\ StrictEq(r.disease, disease))
      dataPoints ==
        MapSeq(LAMBDA r : [x |-> r.population_density,
                           y |-> IF yAxisType = "cases" THEN r.cases ELSE r.per100k,
                           state |-> r.state],
               comparisonRows)
  IN /\ IF net.csv = "ok"
        THEN /\ allRows' = rows
             /\ totalCases' = aggCases
             /\ scatterPoints' = IF JsLess(Num(0), aggCases) THEN dataPoints ELSE <<>>
             /\ consoleLog' = IF JsLess(Num(0), aggCases) THEN {} ELSE {"No data found"}
             /\ notices' = IF JsLess(Num(0), aggCases) THEN {} ELSE {"No data found"}
        ELSE /\ allRows' = <<>> /\ totalCases' = Num(0) /\ scatterPoints' = <<>>
             /\ consoleLog' = {"Error loading CSV"}
             /\ notices' = {"Error loading data."}
     /\ page' = "state_summary"
     /\ currentDisease' = disease /\ currentYear' = year /\ Qstate' = qstate
     /\ byStateAgg' = <<>> /\ tsYears' = {} /\ repeatCall' = FALSE
     /\ mapView' = NoView /\ loadState' = "done"
     /\ stateView' = NoStateView
     /\ controls' = DefaultControls
     /\ summaryUi' = setSummaryState(NoWidget, "ready", "") /\ gemini' = NoCall
     /\ leaflet' = NoLeaflet
     /\ UNCHANGED <<csv, PHdata, stateAll, normVars, envVars, uniqueVars, theme>>

\* state.js (defensive revision) init
StateInit(qstate, disease, year) ==
  \E cached \in {PHdata.set /\ Len(PHdata.rows) > 0} :
  \E ph \in {IF cached THEN PHdata ELSE Cached(MapSeq(normaliseRow_state, csv))} :
  \E all \in {IF stateAll.set THEN stateAll
              ELSE Cached(SelectSeq(MapSeq(normaliseRow_state, ph.rows),
                                    LAMBDA r : Truthy(r.state)))} :
  \E filtered \in
      {SelectSeq(all.rows,
                 LAMBDA r : /\ StrictEq(r.state, qstate)
                            /\ (~Truthy(disease) \/ StrictEq(r.disease, disease))
                            /\ (~Truthy(year) \/ JsString(r.year) = JsString(year)))} :
  \E drawn \in {StateDraws(all.rows, qstate, disease, DefaultControls, dom, plugins)} :
  \E missing \in {RequiredIds \ dom} :
     /\ page' = "state"
     /\ currentDisease' = disease /\ currentYear' = year /\ Qstate' = qstate
     /\ byStateAgg' = <<>> /\ allRows' = <<>> /\ scatterPoints' = <<>>
     /\ repeatCall' = FALSE
     /\ mapView' = NoView /\ loadState' = "done"
     /\ IF ~cached /\ net.csv # "ok"
        THEN /\ notices' = (IF missing # {} THEN {"Some UI elements are missing"} ELSE {})
                              \cup {"Failed to load dataset"}
             /\ consoleLog' = (IF missing # {} THEN {"State page missing some DOM elements"}
                                ELSE {}) \cup {"CSV parse failed"}
             /\ stateView' = NoStateView
             /\ totalCases' = Num(0) /\ tsYears' = {}
             /\ UNCHANGED <<PHdata, stateAll>>
        ELSE IF all.rows = <<>>
        THEN /\ notices' = (IF missing # {} THEN {"Some UI elements are missing"} ELSE {})
                              \cup {"Dataset appears empty"}
             /\ consoleLog' = IF missing # {} THEN {"State page missing some DOM elements"}
                               ELSE {}
             /\ stateView' = NoStateView
             /\ totalCases' = Num(0) /\ tsYears' = {}
             /\ PHdata' = ph /\ stateAll' = all
        ELSE /\ notices' = IF missing # {} THEN {"Some UI elements are missing"} ELSE {}
             /\ consoleLog' =
                  (IF missing # {} THEN {"State page missing some DOM elements"} ELSE {})
                  \cup (IF net.geo # "ok" \/ "stateMap" \notin dom
                        THEN {"GeoJSON load failed"} ELSE {})
                  \cup drawn.warnings
             /\ stateView' = [drawn EXCEPT !.stateMap = net.geo = "ok" /\ "stateMap" \in dom]
             /\ totalCases' = SumCasesOrZero(filtered)
             /\ tsYears' = IF "chartA_stateTS" \in dom
                           THEN {all.rows[i].year :
                                   i \in {j \in 1..Len(all.rows) :
                                            StrictEq(all.rows[j].state, qstate)}}
                           ELSE {}
             /\ PHdata' = ph /\ stateAll' = all
     /\ controls' = DefaultControls
     /\ UNCHANGED <<csv, normVars, envVars, uniqueVars, scriptVars>>

\* state.js (first revision) init.  Every element is dereferenced without
\* a test, so the first one that is absent ends init with a rejection, as
\* does a GeoJSON answer that is not JSON or a chart type no plugin
\* registered; Papa.parse has no error callback, so a failed download
\* leaves init waiting.  The draws before that point have happened.
StateInit_v1(qstate, disease, year) ==
  LET rows == SelectSeq(csv, LAMBDA r : StrictEq(Get(r, "state"), qstate))
      filtered == SelectSeq(rows,
                    LAMBDA r : /\ (~Truthy(disease) \/ StrictEq(Get(r, "disease"), disease))
                               /\ (~Truthy(year) \/ StrictEq(Get(r, "year"), year)))
      loaded == "backToMap" \in dom /\ net.csv = "ok"
      header == loaded /\ {"stateTitle", "diseaseYearText", "stateTotalCases",
                           "statePopulation", "stateDensity"} \subseteq dom
      mapped == header /\ net.geo = "ok" /\ "stateMap" \in dom
      a == mapped /\ {"stateLatest", "chartA_norm", "chartA_axis",
                      "chartA_stateTS"} \subseteq dom
      b == a /\ "chartB_statePer100k" \in dom
      filled == b /\ "stateDiseaseSelect" \in dom
      c == filled /\ "chartC_stateCompare" \in dom
      dd == c /\ {"stateScatterX", "stateScatterY", "chartD_stateScatter"} \subseteq dom
      e == dd /\ "chartE_stateSunburst" \in dom /\ "sunburst" \in plugins
      f == e /\ "chartF_stateHeatmap" \in dom /\ "matrix" \in plugins
      options == SortTexts({JsString(Get(r, "disease")) : r \in RangeOf(rows)})
      compared == IF c THEN drawStateCompare_v1(NoSelectors, rows)
                  ELSE IF filled THEN [NoSelectors EXCEPT !.options = options]
                  ELSE NoSelectors
      scattered == IF dd THEN drawStateScatter_v1(compared) ELSE compared
      bound == IF f THEN [scattered EXCEPT !.selected = RangeOf(options)] ELSE scattered
  IN /\ page' = "state_v1"
     /\ currentDisease' = disease /\ currentYear' = year /\ Qstate' = qstate
     /\ byStateAgg' = <<>> /\ allRows' = <<>> /\ scatterPoints' = <<>>
     /\ repeatCall' = FALSE /\ tsYears' = {}
     /\ mapView' = NoView /\ notices' = {}
     /\ stateAll' = IF loaded THEN Cached(rows) ELSE Unset
     /\ totalCases' = IF header THEN SumCasesOrZero(filtered) ELSE Num(0)
     /\ loadState' = IF "backToMap" \in dom /\ net.csv # "ok" THEN "pending" ELSE "done"
     /\ consoleLog' = IF f \/ loadState' = "pending" THEN {} ELSE {"Uncaught TypeError"}
     /\ stateView' =
          [NoStateView EXCEPT
             !.stateMap = mapped,
             !.chartA = IF a THEN [drawn |-> TRUE, type |-> "line"] ELSE NoChart,
             !.chartB = IF b THEN [drawn |-> TRUE, type |-> "bar"] ELSE NoChart,
             !.chartC = IF c THEN [drawn |-> TRUE, type |-> "line"] ELSE NoChart,
             !.chartD = IF dd THEN [drawn |-> TRUE, type |-> "scatter"] ELSE NoChart,
             !.chartE = IF e THEN [drawn |-> TRUE, type |-> "sunburst"] ELSE NoChart,
             !.chartF = IF f THEN [drawn |-> TRUE, type |-> "matrix"] ELSE NoChart,
             !.wired = IF f THEN StateControlIds ELSE {},
             !.selectors = bound]
     /\ controls' = DefaultControls
     /\ UNCHANGED <<csv, PHdata, normVars, envVars, uniqueVars, scriptVars>>

MaxListeners == 8

\* the rest of the state page when a selector handler runs
SelectorFrame ==
  UNCHANGED <<csv, PHdata, page, currentDisease, currentYear, Qstate, byStateAgg,
              allRows, stateAll, scatterPoints, tsYears, totalCases, repeatCall,
              normVars, envVars, uniqueVars, scriptVars, controls, mapView,
              consoleLog, notices, loadState>>

\* one run of every change listener the disease selector held when the
\* event was dispatched; a listener added by a running listener is not run
\* for this event
RECURSIVE RunCompareListeners(_, _, _, _, _)
RunCompareListeners(s, n, pg, rows, qstate) ==
  IF n = 0 THEN s
  ELSE LET before == RunCompareListeners(s, n - 1, pg, rows, qstate)
       IN IF pg = "state_v1" THEN drawStateCompare_v1(before, rows)
          ELSE drawStateCompare(before, rows, qstate, dom)

\* the user picks the diseases to compare: a change event on
\* stateDiseaseSelect
ChangeStateDisease(chosen) ==
  /\ page \in {"state", "state_v1"}
  /\ "stateDiseaseSelect" \in dom
  /\ stateView.selectors.options # <<>>
  /\ chosen \subseteq RangeOf(stateView.selectors.options)
  /\ chosen # stateView.selectors.selected
  /\ \E picked \in {[stateView.selectors EXCEPT !.selected = chosen, !.chosen = chosen,
                       !.redraws = 0, !.scatterDraws = 0]} :
     \E after \in {RunCompareListeners(picked, picked.listeners, page, stateAll.rows,
                                       Qstate)} :
       /\ after.listeners <= MaxListeners
       /\ stateView' = [stateView EXCEPT !.selectors = after]
  /\ SelectorFrame

RECURSIVE RunScatterListeners(_, _, _)
RunScatterListeners(s, n, pg) ==
  IF n = 0 THEN s
  ELSE LET before == RunScatterListeners(s, n - 1, pg)
       IN IF pg = "state_v1" THEN drawStateScatter_v1(before)
          ELSE drawStateScatter(before, dom)

\* the user picks an axis of the scatter plot: a change event on
\* stateScatterX or stateScatterY
ChangeStateScatter(id, value) ==
  /\ page \in {"state", "state_v1"}
  /\ id \in dom
  /\ value # stateView.selectors.axes[IF id = "stateScatterX" THEN 1 ELSE 2]
  /\ \E picked \in {[stateView.selectors EXCEPT
                       !.axes[IF id = "stateScatterX" THEN 1 ELSE 2] = value,
                       !.redraws = 0, !.scatterDraws = 0]} :
       stateView' =
         [stateView EXCEPT !.selectors =
            RunScatterListeners(picked,
              IF id = "stateScatterX" THEN picked.scatterX ELSE picked.scatterY, page)]
  /\ SelectorFrame

\* a new browsing session: no window globals survive
NewSession ==
  /\ page # "none"
  /\ PHdata' = Unset /\ stateAll' = Unset
  /\ page' = "none"
  /\ currentDisease' = Null /\ currentYear' = Null /\ Qstate' = Null
  /\ byStateAgg' = <<>> /\ allRows' = <<>> /\ scatterPoints' = <<>>
  /\ tsYears' = {} /\ totalCases' = Num(0) /\ repeatCall' = FALSE
  /\ mapView' = NoView /\ consoleLog' = {} /\ notices' = {} /\ loadState' = "idle"
  /\ stateView' = NoStateView
  /\ controls' = DefaultControls
  /\ summaryUi' = NoWidget /\ gemini' = NoCall /\ leaflet' = NoLeaflet
  /\ UNCHANGED <<csv, normVars, envVars, uniqueVars, theme>>

AllIds == MapIds \cup RequiredIds \cup StateControlIds

AllPlugins == {"boxplot", "sunburst", "matrix"}

\* nothing shown, nothing called yet
Blank ==
  /\ localStore = Unset
  /\ controls = DefaultControls
  /\ mapView = NoView /\ stateView = NoStateView
  /\ consoleLog = {} /\ notices = {} /\ loadState = "idle"
  /\ usInput = <<>> /\ usOutput = NoOutput
  /\ summaryUi = NoWidget /\ gemini = NoCall /\ leaflet = NoLeaflet
  /\ theme = NoTheme

Init ==
  /\ csv \in Datasets
  /\ PHdata = Unset /\ stateAll = Unset
  /\ page = "none"
  /\ currentDisease = Null /\ currentYear = Null /\ Qstate = Null
  /\ byStateAgg = <<>>
  /\ allRows = <<>> /\ scatterPoints = <<>> /\ tsYears = {} /\ totalCases = Num(0)
  /\ repeatCall = FALSE
  /\ rawRow = EmptyObj /\ normVariant = "none" /\ normRow = EmptyObj
  /\ dom = AllIds /\ plugins = AllPlugins /\ net = NetOk
  /\ Blank

Next ==
  \/ MainInit
  \/ \E d \in DiseaseParams, y \in YearParams : MapInit(d, y)
  \/ \E d \in DiseaseParams, y \in YearParams : MapInit_v1(d, y)
  \/ NewSession

\* the landing page and the map page
Spec == Init /\ [][Next]_vars

NextState ==
  \/ \E q \in StateParams, d \in DiseaseParams, y \in YearParams,
        a \in {"cases", "per100k"} : StateInit_summary(q, d, y, a)
  \/ \E q \in StateParams, d \in DiseaseParams, y \in YearParams : StateInit(q, d, y)
  \/ NewSession

\* the state page
SpecState == Init /\ [][NextState]_vars

(***************************************************************************)
(* The normalisers applied to one record.                                  *)
(***************************************************************************)
CallNormalizeRowMain ==
  /\ normVariant' = "main" /\ normRow' = normalizeRow_main(rawRow)
  /\ UNCHANGED <<rawRow, pageVars>>

CallNormaliseRowMap ==
  /\ normVariant' = "map" /\ normRow' = normaliseRow_map(rawRow)
  /\ UNCHANGED <<rawRow, pageVars>>

CallNormalizeRow ==
  /\ normVariant' = "main_storage" /\ normRow' = normalizeRow(rawRow)
  /\ UNCHANGED <<rawRow, pageVars>>

CallNormaliseRowSummary ==
  /\ normVariant' = "state_summary"
  /\ normRow' = normaliseRow_summary(DynamicTyping(rawRow))
  /\ UNCHANGED <<rawRow, pageVars>>

CallNormaliseRowState ==
  /\ normVariant' = "state" /\ normRow' = normaliseRow_state(rawRow)
  /\ UNCHANGED <<rawRow, pageVars>>

InitNorm ==
  /\ rawRow \in RawRecords
  /\ normVariant = "none" /\ normRow = EmptyObj
  /\ csv = <<>> /\ PHdata = Unset /\ stateAll = Unset
  /\ page = "none"
  /\ currentDisease = Null /\ currentYear = Null /\ Qstate = Null
  /\ byStateAgg = <<>>
  /\ allRows = <<>> /\ scatterPoints = <<>> /\ tsYears = {} /\ totalCases = Num(0)
  /\ repeatCall = FALSE
  /\ dom = AllIds /\ plugins = AllPlugins /\ net = NetOk
  /\ Blank

NextNorm ==
  \/ CallNormalizeRowMain
  \/ CallNormaliseRowMap
  \/ CallNormalizeRow
  \/ CallNormaliseRowSummary
  \/ CallNormaliseRowState

SpecNorm == InitNorm /\ [][NextNorm]_vars

(***************************************************************************)
(* The charts of the map page over datasets with several diseases, years   *)
(* and states.                                                             *)
(***************************************************************************)
MaxChartRows == 2

\* a browsing session that has loaded no page yet
Fresh ==
  /\ PHdata = Unset /\ stateAll = Unset
  /\ page = "none"
  /\ currentDisease = Null /\ currentYear = Null /\ Qstate = Null
  /\ byStateAgg = <<>>
  /\ allRows = <<>> /\ scatterPoints = <<>> /\ tsYears = {} /\ totalCases = Num(0)
  /\ repeatCall = FALSE
  /\ rawRow = EmptyObj /\ normVariant = "none" /\ normRow = EmptyObj
  /\ Blank

\* two diseases whose years overlap in part
OverlapYears ==
  <<CsvRow("CA", "2018", "A", "10", "1000", "10"),
    CsvRow("CA", "2019", "A", "20", "1000", "10"),
    CsvRow("CA", "2020", "A", "30", "1000", "10"),
    CsvRow("NY", "2020", "B", "50", "2000", "20"),
    CsvRow("CA", "2019", "B", "100", "1000", "10"),
    CsvRow("CA", "2021", "B", "200", "1000", "10")>>

\* more diseases than the selector preselects
FiveDiseases ==
  <<CsvRow("CA", "2020", "A", "50", "1000", "10"),
    CsvRow("CA", "2020", "B", "200", "1000", "10"),
    CsvRow("NY", "2020", "C", "10", "2000", "20"),
    CsvRow("NY", "2020", "D", "300", "2000", "20"),
    CsvRow("TX", "2020", "E", "10", "3000", "30"),
    CsvRow("TX", "2021", "A", "-5", "3000", "30")>>

SeriesPool ==
  { CsvRow("CA", "2020", "Flu", "100", "1000", "10"),
    CsvRow("NY", "2020", "Cold", "50", "2000", "20"),
    CsvRow("NY", "2021", "Flu", "200", "2000", "20"),
    CsvRow("CA", "2021", "", "30", "1000", "10"),
    CsvRow("TX", "", "Cold", "abc", "0", "") }

SeriesDatasets ==
  {OverlapYears, FiveDiseases} \cup UNION {[1..n -> SeriesPool] : n \in 0..MaxChartRows}

PluginSets == {{}, AllPlugins}

InitSeries ==
  /\ csv \in SeriesDatasets
  /\ dom = AllIds /\ plugins \in PluginSets /\ net = NetOk
  /\ Fresh

NextSeries ==
  \/ MapInit(Null, Null)
  \/ MapInit_v1(Null, Null)
  \/ MapInit_v2(Null, Null)
  \/ \E picked \in SUBSET RangeOf(mapView.multiSelect.options) : ChangeMultiSelect(picked)
  \/ \E g \in {"byYear", "byState"} : ChangeBoxGroup(g)
  \/ \E k \in 1..MaxBoxParses : BoxParseCompletes(k)

\* the selector, the line chart and the box plot of the map page
SpecSeries == InitSeries /\ [][NextSeries]_vars

(***************************************************************************)
(* The top diseases of the map page selector and of the state page's       *)
(* stacked bar.                                                            *)
(***************************************************************************)
\* totals A:50, B:200, C:10, D:300
TopExample ==
  <<CsvRow("CA", "2020", "A", "50", "1000", "10"),
    CsvRow("CA", "2020", "B", "200", "1000", "10"),
    CsvRow("CA", "2020", "C", "10", "1000", "10"),
    CsvRow("CA", "2020", "D", "300", "1000", "10")>>

\* five named diseases and two rows of one year that name none
SixCategories ==
  <<CsvRow("CA", "2020", "", "200", "1000", "10"),
    CsvRow("CA", "2020", "", "200", "1000", "10"),
    CsvRow("CA", "2020", "A", "300", "1000", "10"),
    CsvRow("CA", "2020", "B", "300", "1000", "10"),
    CsvRow("CA", "2020", "C", "300", "1000", "10"),
    CsvRow("CA", "2020", "D", "300", "1000", "10"),
    CsvRow("CA", "2020", "E", "300", "1000", "10")>>

TopPool ==
  { CsvRow("CA", "2020", "Flu", "100", "1000", "10"),
    CsvRow("CA", "2021", "Flu", "200", "1000", "10"),
    CsvRow("CA", "2020", "Cold", "50", "1000", "10"),
    CsvRow("NY", "2020", "Cold", "300", "2000", "20"),
    CsvRow("CA", "2020", "", "30", "1000", "10") }

TopDatasets ==
  {TopExample, SixCategories, FiveDiseases}
    \cup UNION {[1..n -> TopPool] : n \in 0..MaxChartRows}

InitTop ==
  /\ csv \in TopDatasets
  /\ dom = AllIds /\ plugins \in PluginSets /\ net = NetOk
  /\ Fresh

NextTop ==
  \/ MapInit(Null, Null)
  \/ MapInit_v1(Null, Null)
  \/ MapInit_v2(Null, Null)
  \/ \E q \in {Str("CA"), Str("NY")} : StateInit(q, Null, Null)

\* the pages that pick top diseases, loaded in any order
SpecTop == InitTop /\ [][NextTop]_vars

(***************************************************************************)
(* uniqueSorted applied to one column.                                     *)
(***************************************************************************)
MaxUniqueLen == 3

UniquePool ==
  {Str("2"), Str("10"), Str("1a"), Str("Flu"), Str("flu"), Str("NA"), Str("")}

InitUnique ==
  /\ usInput \in UNION {[1..n -> UniquePool] : n \in 0..MaxUniqueLen}
  /\ csv = <<>> /\ dom = AllIds /\ plugins = AllPlugins /\ net = NetOk
  /\ localStore = Unset
  /\ PHdata = Unset /\ stateAll = Unset
  /\ page = "none"
  /\ currentDisease = Null /\ currentYear = Null /\ Qstate = Null
  /\ byStateAgg = <<>>
  /\ allRows = <<>> /\ scatterPoints = <<>> /\ tsYears = {} /\ totalCases = Num(0)
  /\ repeatCall = FALSE
  /\ rawRow = EmptyObj /\ normVariant = "none" /\ normRow = EmptyObj
  /\ controls = DefaultControls /\ mapView = NoView /\ stateView = NoStateView
  /\ consoleLog = {} /\ notices = {} /\ loadState = "idle"
  /\ usOutput = NoOutput
  /\ summaryUi = NoWidget /\ gemini = NoCall /\ leaflet = NoLeaflet
  /\ theme = NoTheme

NextUnique ==
  \/ CallUniqueSortedMain
  \/ CallUniqueSorted

\* the two revisions of uniqueSorted over every short column
SpecUnique == InitUnique /\ [][NextUnique]_vars

(***************************************************************************)
(* The bar chart, the histogram, the box plot and the summary table of the *)
(* map page over aggregations with equal and with far apart totals.        *)
(***************************************************************************)
\* three states with the same cases around one with fewer
TiedCases ==
  <<CsvRow("TX", "2020", "Flu", "100", "3000", "30"),
    CsvRow("CA", "2020", "Flu", "100", "1000", "10"),
    CsvRow("NY", "2020", "Flu", "50", "2000", "20"),
    CsvRow("WA", "2020", "Flu", "100", "2000", "20")>>

\* the values 0, 50, 100, 5000
FarApart ==
  <<CsvRow("CA", "2020", "Flu", "0", "1000", "10"),
    CsvRow("NY", "2020", "Flu", "50", "2000", "20"),
    CsvRow("TX", "2020", "Flu", "100", "3000", "30"),
    CsvRow("WA", "2020", "Flu", "5000", "2000", "20")>>

ChartPool ==
  { CsvRow("CA", "2020", "Flu", "100", "1000", "10"),
    CsvRow("NY", "2020", "Flu", "100", "2000", "20"),
    CsvRow("TX", "2021", "Cold", "7", "3000", "30"),
    CsvRow("NY", "2021", "Flu", "12", "2000", "20"),
    CsvRow("WA", "2020", "Cold", "abc", "0", "") }

ChartDatasets ==
  {TiedCases, FarApart} \cup UNION {[1..n -> ChartPool] : n \in 0..MaxChartRows}

\* the sort orders the user switches between
SortModes == {"cases_desc", "cases_asc", "alpha_asc", "per100k_desc"}

InitCharts ==
  /\ csv \in ChartDatasets
  /\ dom = AllIds /\ plugins \in PluginSets /\ net = NetOk
  /\ Fresh

NextCharts ==
  \/ MapInit(Null, Null)
  \/ MapInit_v1(Null, Null)
  \/ MapInit_v2(Null, Null)
  \/ \E mode \in SortModes : ChangeCasesSort(mode)
  \/ \E norm \in {"absolute", "per100k"} : ChangeHistNorm(norm)
  \/ \E g \in {"byYear", "byState"} : ChangeBoxGroup(g)
  \/ \E k \in 1..MaxBoxParses : BoxParseCompletes(k)

\* the charts drawn from the aggregation, and their controls
SpecCharts == InitCharts /\ [][NextCharts]_vars

(***************************************************************************)
(* The pages under every outcome of their two downloads.                   *)
(***************************************************************************)
\* the file arrives, the server answers 404, or the request fails
CsvOutcomes == {"ok", "missing", "offline"}
GeoOutcomes == {"ok", "missing"}

FaultPool ==
  { CsvRow("CA", "2020", "Flu", "100", "1000", "10"),
    CsvRow("NY", "2020", "Cold", "50", "2000", "20"),
    CsvRow("", "2021", "Flu", "7", "500", "5") }

InitFaults ==
  /\ csv \in UNION {[1..n -> FaultPool] : n \in 0..MaxChartRows}
  /\ dom = AllIds /\ plugins = AllPlugins
  /\ net \in [csv : CsvOutcomes, geo : GeoOutcomes]
  /\ Fresh

NextFaults ==
  \/ MainInit
  \/ MainInit_ls
  \/ MapInit(Null, Null)
  \/ MapInit_v1(Null, Null)
  \/ MapInit_v2(Null, Null)
  \/ \E a \in {"cases", "per100k"} : StateInit_summary(Str("CA"), Str("Flu"), Str("2020"), a)
  \/ StateInit(Str("CA"), Null, Null)
  \/ NewSession

\* every page of the site, loaded in any order, the outcome of the
\* downloads fixed for the session
SpecFaults == InitFaults /\ [][NextFaults]_vars

(***************************************************************************)
(* The pages in documents that lack one element a draw operation targets.  *)
(***************************************************************************)
\* the element each draw operation of the map page targets, and the part
\* of the view the operation fills
MapTargets ==
  [casesMap |-> "casesMap", casesByStateBar |-> "casesByStateChart",
   casesHistogram |-> "histChart", scatterDensityCases |-> "scatterChart",
   multiDiseaseSeries |-> "multiChart", boxplotCases |-> "boxChart",
   summaryTableContainer |-> "summaryTable"]

\* the same for the state page
StateTargets ==
  [stateMap |-> "stateMap", chartA_stateTS |-> "chartA", chartB_statePer100k |-> "chartB",
   chartC_stateCompare |-> "chartC", chartD_stateScatter |-> "chartD",
   chartE_stateSunburst |-> "chartE", chartF_stateHeatmap |-> "chartF"]

DrawTargets == DOMAIN MapTargets \cup DOMAIN StateTargets

DomPool ==
  { CsvRow("CA", "2020", "Flu", "100", "1000", "10"),
    CsvRow("NY", "2020", "Cold", "50", "2000", "20"),
    CsvRow("CA", "2021", "Cold", "200", "1000", "10") }

InitDom ==
  /\ csv \in UNION {[1..n -> DomPool] : n \in 0..MaxChartRows}
  /\ dom \in {AllIds} \cup {AllIds \ {t} : t \in DrawTargets}
  /\ plugins \in PluginSets /\ net = NetOk
  /\ Fresh

NextDom ==
  \/ MapInit(Null, Null)
  \/ MapInit_v1(Null, Null)
  \/ MapInit_v2(Null, Null)
  \/ StateInit(Str("CA"), Null, Null)
  \/ NewSession

\* the map page and the state page in every such document
SpecDom == InitDom /\ [][NextDom]_vars

(***************************************************************************)
(* The summary card of the state page: the page is loaded with or without  *)
(* its query parameters, the button is clicked, each request comes back    *)
(* with any outcome, each wait ends.                                       *)
(***************************************************************************)
SummaryPool ==
  { CsvRow("CA", "2020", "Flu", "100", "1000", "10"),
    CsvRow("NY", "2020", "Flu", "50", "2000", "20") }

InitSummary ==
  /\ csv \in UNION {[1..n -> SummaryPool] : n \in 0..2}
  /\ dom = AllIds /\ plugins = AllPlugins /\ net = NetOk
  /\ Fresh

LoadSummaryPage ==
  \E d \in {Null, Str("Flu")}, y \in {Null, Str("2020")} :
    StateInit_summary(Str("CA"), d, y, "cases")

NextSummary ==
  \/ LoadSummaryPage
  \/ ClickGenerateSummary
  \/ \E o \in FetchOutcomes : FetchCompletes(o)
  \/ TimerFires
  \/ NewSession

SpecSummary == InitSummary /\ [][NextSummary]_vars

\* every fetch settles (the network answers or the fetch is rejected) and
\* every timer set with setTimeout fires
SpecSummaryFair ==
  /\ SpecSummary
  /\ WF_vars(\E o \in FetchOutcomes : FetchCompletes(o))
  /\ WF_vars(TimerFires)

(***************************************************************************)
(* The charts of the aggregation redrawn under every control value.        *)
(***************************************************************************)
\* the values of casesSortSelect, and one the switch does not know
AllSortModes ==
  {"cases_asc", "cases_desc", "alpha_asc", "alpha_desc", "pop_desc", "density_desc",
   "per100k_desc", "other"}

InitFrame ==
  /\ csv \in {TiedCases, FarApart} \cup UNION {[1..n -> ChartPool] : n \in 0..2}
  /\ dom = AllIds /\ plugins = AllPlugins /\ net = NetOk
  /\ Fresh

NextFrame ==
  \/ MapInit(Null, Null)
  \/ \E mode \in AllSortModes : ChangeCasesSort(mode)
  \/ \E norm \in {"absolute", "per100k"} : ChangeHistNorm(norm)
  \/ \E checked \in BOOLEAN : ChangeScatterPerCapita(checked)

SpecFrame == InitFrame /\ [][NextFrame]_vars

(***************************************************************************)
(* The controls of the box plot changed in any order, in map.js and in the *)
(* first charts revision.                                                  *)
(***************************************************************************)
BoxDatasets ==
  { <<CsvRow("CA", "2020", "Flu", "100", "1000", "10"),
      CsvRow("NY", "2020", "Flu", "50", "2000", "20"),
      CsvRow("NY", "2021", "Flu", "12", "2000", "20")>>,
    <<CsvRow("CA", "2020", "Flu", "100", "1000", "10")>> }

InitBox ==
  /\ csv \in BoxDatasets
  /\ dom = AllIds /\ plugins = AllPlugins /\ net = NetOk
  /\ Fresh

NextBox ==
  \/ MapInit(Null, Null)
  \/ MapInit_v1(Null, Null)
  \/ \E g \in {"byYear", "byState"} : ChangeBoxGroup(g)
  \/ \E n \in {"absolute", "per100k"} : ChangeBoxNorm(n)
  \/ \E a \in {"linear", "logarithmic"} : ChangeBoxAxis(a)
  \/ \E k \in 1..MaxBoxParses : BoxParseCompletes(k)

SpecBox == InitBox /\ [][NextBox]_vars

(***************************************************************************)
(* The maps of the three revisions of the map page, built again and again, *)
(* the overlays of the layer control switched on and off in between.       *)
(***************************************************************************)
InitLayers ==
  /\ csv \in UNION {[1..n -> ChartPool] : n \in 0..2}
  /\ dom = AllIds /\ plugins = AllPlugins /\ net = NetOk
  /\ Fresh

NextLayers ==
  \/ MapInit(Null, Null)
  \/ MapInit_v1(Null, Null)
  \/ MapInit_v2(Null, Null)
  \/ CallBuildMaps
  \/ ToggleOverlay("cases", "casesLayer")
  \/ ToggleOverlay("density", "densityLayer")

SpecLayers == InitLayers /\ [][NextLayers]_vars

(***************************************************************************)
(* The two selects of the landing page, in its three revisions.            *)
(***************************************************************************)
LandingPool ==
  { CsvRow("CA", "2020", "Flu", "100", "1000", "10"),
    CsvRow("CA", "2021", "Flu", "50", "1000", "10"),
    CsvRow("NY", "2020", "Cold", "7", "2000", "20"),
    CsvRow("NY", "NA", "Cold", "7", "2000", "20"),
    CsvRow("TX", "", "Flu", "5", "3000", "30") }

InitLanding ==
  /\ csv \in UNION {[1..n -> LandingPool] : n \in 0..2}
  /\ dom = AllIds /\ plugins = AllPlugins
  /\ net \in {NetOk, [csv |-> "offline", geo |-> "ok"]}
  /\ Fresh

NextLanding ==
  \/ MainInit
  \/ MainInit_ls
  \/ MainInit_v1
  \/ \E d \in {"", "Flu", "Cold"} : ChangeDisease(d)
  \/ \E y \in {"", "2020", "2021", "NA"} : ChangeYear(y)

SpecLanding == InitLanding /\ [][NextLanding]_vars

(***************************************************************************)
(* The landing page of the localStorage revision loaded again and again    *)
(* while the dataset file comes and goes.                                  *)
(***************************************************************************)
InitCache ==
  /\ csv \in UNION {[1..n -> FaultPool] : n \in 0..2}
  /\ dom = AllIds /\ plugins = AllPlugins
  /\ net \in [csv : CsvOutcomes, geo : {"ok"}]
  /\ PHdata = Unset /\ stateAll = Unset
  /\ page = "none"
  /\ currentDisease = Null /\ currentYear = Null /\ Qstate = Null
  /\ byStateAgg = <<>>
  /\ allRows = <<>> /\ scatterPoints = <<>> /\ tsYears = {} /\ totalCases = Num(0)
  /\ repeatCall = FALSE
  /\ rawRow = EmptyObj /\ normVariant = "none" /\ normRow = EmptyObj
  /\ localStore \in {Unset, Garbled}
  /\ controls = DefaultControls
  /\ mapView = NoView /\ stateView = NoStateView
  /\ consoleLog = {} /\ notices = {} /\ loadState = "idle"
  /\ usInput = <<>> /\ usOutput = NoOutput
  /\ summaryUi = NoWidget /\ gemini = NoCall /\ leaflet = NoLeaflet
  /\ theme = NoTheme

NextCache ==
  \/ MainInit_ls
  \/ \E o \in CsvOutcomes : NetChanges(o)
  \/ NewSession

SpecCache == InitCache /\ [][NextCache]_vars

(***************************************************************************)
(* A normalised record handed to a normaliser again: map.js init maps      *)
(* normaliseRow over the cached window.__PHdata, state.js init over the   *)
(* rows it has just normalised and cached.                                 *)
(***************************************************************************)
\* map.js init: normaliseRow over a row of the cached dataset
RenormaliseMap ==
  /\ normVariant \in {"map", "state", "map_again", "state_again"}
  /\ rawRow' = normRow
  /\ normVariant' = "map_again" /\ normRow' = normaliseRow_map(normRow)
  /\ UNCHANGED pageVars

\* state.js init: normaliseRow over a row of the cached dataset
RenormaliseState ==
  /\ normVariant \in {"map", "state", "map_again", "state_again"}
  /\ rawRow' = normRow
  /\ normVariant' = "state_again" /\ normRow' = normaliseRow_state(normRow)
  /\ UNCHANGED pageVars

\* records of the file under the exact column names and two aliases
RenormRecords ==
  {r \in RawRecords :
     r.State = Undef /\ r.DISEASE = Undef /\ r.CASES = Undef /\ r.pop = Undef}

InitRenorm ==
  /\ rawRow \in RenormRecords
  /\ normVariant = "none" /\ normRow = EmptyObj
  /\ csv = <<>> /\ PHdata = Unset /\ stateAll = Unset
  /\ page = "none"
  /\ currentDisease = Null /\ currentYear = Null /\ Qstate = Null
  /\ byStateAgg = <<>>
  /\ allRows = <<>> /\ scatterPoints = <<>> /\ tsYears = {} /\ totalCases = Num(0)
  /\ repeatCall = FALSE
  /\ dom = AllIds /\ plugins = AllPlugins /\ net = NetOk
  /\ Blank

NextRenorm ==
  \/ CallNormaliseRowMap
  \/ CallNormaliseRowState
  \/ RenormaliseMap
  \/ RenormaliseState

\* a record of the file normalised, and the result normalised again
SpecRenorm == InitRenorm /\ [][NextRenorm]_vars

(***************************************************************************)
(* The state page and its selectors: the disease selector of the          *)
(* comparison chart and the two axis selectors of the scatter plot.       *)
(***************************************************************************)
SelectorDatasets ==
  { <<CsvRow("CA", "2020", "Flu", "100", "1000", "10"),
      CsvRow("CA", "2020", "Cold", "50", "1000", "10"),
      CsvRow("CA", "2021", "A", "7", "1000", "10"),
      CsvRow("NY", "2020", "B", "5", "2000", "20")>>,
    <<CsvRow("CA", "2020", "Flu", "100", "1000", "10"),
      CsvRow("NY", "2020", "Cold", "50", "2000", "20")>> }

\* the elements of the state page, with and without the disease selector
SelectorDoms ==
  {AllIds \cup {"stateLatest"}, (AllIds \cup {"stateLatest"}) \ {"stateDiseaseSelect"}}

InitSelectors ==
  /\ csv \in SelectorDatasets
  /\ dom \in SelectorDoms /\ plugins = AllPlugins /\ net = NetOk
  /\ Fresh

NextSelectors ==
  \/ StateInit(Str("CA"), Null, Null)
  \/ StateInit_v1(Str("CA"), Null, Null)
  \/ \E chosen \in SUBSET {"A", "Cold", "Flu"} : ChangeStateDisease(chosen)
  \/ \E id \in {"stateScatterX", "stateScatterY"},
        value \in {"population", "population_density", "year", "cases", "per100k"} :
       ChangeStateScatter(id, value)
  \/ NewSession

\* the state page of either revision and the change events of its selectors
SpecSelectors == InitSelectors /\ [][NextSelectors]_vars

(***************************************************************************)
(* The theme scripts and the clicks on the theme toggles.                  *)
(***************************************************************************)
\* what localStorage holds under phd_theme when the first document loads
StoredThemes == {"unset", "light", "dark", "blue"}

\* the landing page, the map page and the state page, each with its toggle
ThemeDoms ==
  { AllIds \cup {"themeToggleHeader", "themeIconHeader"},
    AllIds \cup {"themeToggleMap", "themeIconMap"},
    AllIds \cup {"themeToggleState", "themeIconState"} }

InitTheme ==
  /\ csv = <<>> /\ dom \in ThemeDoms
  /\ plugins = AllPlugins /\ net = NetOk
  /\ PHdata = Unset /\ stateAll = Unset
  /\ page = "none"
  /\ currentDisease = Null /\ currentYear = Null /\ Qstate = Null
  /\ byStateAgg = <<>>
  /\ allRows = <<>> /\ scatterPoints = <<>> /\ tsYears = {} /\ totalCases = Num(0)
  /\ repeatCall = FALSE
  /\ rawRow = EmptyObj /\ normVariant = "none" /\ normRow = EmptyObj
  /\ localStore = Unset
  /\ controls = DefaultControls
  /\ mapView = NoView /\ stateView = NoStateView
  /\ consoleLog = {} /\ notices = {} /\ loadState = "idle"
  /\ usInput = <<>> /\ usOutput = NoOutput
  /\ summaryUi = NoWidget /\ gemini = NoCall /\ leaflet = NoLeaflet
  /\ theme \in {[NoTheme EXCEPT !.stored = st] : st \in StoredThemes}

NextTheme ==
  \/ LoadThemeJs
  \/ LoadThemeJs_v2
  \/ \E target \in ToggleIds \cup IconIds : ClickTheme(target)

\* documents that load a theme script, and clicks on their toggles
SpecTheme == InitTheme /\ [][NextTheme]_vars

(***************************************************************************)
(* Properties of aggregateByState, stated on the rows handed to it and     *)
(* the summaries it returned.                                              *)
(***************************************************************************)
AggPage == page \in {"map", "map_v1"}

\* the rows of the last aggregateByState call
AggInput == IF page = "map" THEN PHdata.rows ELSE csv

Min(S) == CHOOSE x \in S : \A y \in S : x <= y

\* a count as the data model reads it: the number, 0 when it does not parse
CountOf(v) == IF ToNumber(v).t = "num" THEN ToNumber(v).n ELSE 0

TextOf(v) == IF v.t = "str" THEN v.s ELSE ""

PassesFilters(r) ==
  /\ currentDisease = Null \/ r.disease = currentDisease
  /\ currentYear = Null \/ JsString(r.year) = JsString(currentYear)

\* the rows of one state that pass the filters
RowsOf(st) ==
  {j \in 1..Len(AggInput) :
     TextOf(AggInput[j].state) = st /\ PassesFilters(AggInput[j])}

RECURSIVE SumCount(_)
SumCount(S) ==
  IF S = {} THEN 0
  ELSE LET j == CHOOSE x \in S : TRUE
       IN CountOf(AggInput[j].cases) + SumCount(S \ {j})

\* C1: the cases of every state in the result of aggregateByState are the
\* sum of the cases of exactly the rows of that state that pass the disease
\* and year filters
C1_CasesAreSum ==
  AggPage =>
    \A i \in 1..Len(byStateAgg) :
      byStateAgg[i].cases = Num(SumCount(RowsOf(byStateAgg[i].state)))

C1_Witness ==
  /\ page = "map" /\ currentDisease = Str("Flu") /\ Len(AggInput) = 2
  /\ AggInput[1].cases = Num(100) /\ AggInput[2].cases = Num(200)
  /\ \E i \in 1..Len(byStateAgg) :
       byStateAgg[i].state = "CA" /\ byStateAgg[i].cases = Num(300)

\* C2 as stated: population and density of a state are those of the first
\* participating row of that state, whatever later rows carry
C2_FirstRowWins ==
  AggPage =>
    \A i \in 1..Len(byStateAgg) :
      LET rows == RowsOf(byStateAgg[i].state)
      IN rows # {} =>
           /\ byStateAgg[i].population = Num(CountOf(AggInput[Min(rows)].population))
           /\ byStateAgg[i].density =
                Num(CountOf(AggInput[Min(rows)].population_density))

FirstNonZero(rows, field) ==
  LET known == {j \in rows : CountOf(AggInput[j][field]) # 0}
  IN IF known = {} THEN 0 ELSE CountOf(AggInput[Min(known)][field])

\* C2 amended: population and density of a state are each taken from the
\* first participating row of that state whose value is non-zero, are 0 when
\* no participating row has one, and are not overwritten by later rows
C2_FirstNonZeroWins ==
  AggPage =>
    \A i \in 1..Len(byStateAgg) :
      LET rows == RowsOf(byStateAgg[i].state)
      IN /\ byStateAgg[i].population = Num(FirstNonZero(rows, "population"))
         /\ byStateAgg[i].density = Num(FirstNonZero(rows, "population_density"))

C2_Witness ==
  /\ page = "map"
  /\ \E i \in 1..Len(byStateAgg) :
       LET rows == RowsOf(byStateAgg[i].state)
       IN /\ byStateAgg[i].population = Num(1000)
          /\ byStateAgg[i].density = Num(10)
          /\ \E j \in rows : /\ j > Min(rows)
                             /\ CountOf(AggInput[j].population) = 2000
                             /\ CountOf(AggInput[j].population_density) = 20

ResultKeys == {byStateAgg[i].state : i \in 1..Len(byStateAgg)}

\* C4 as stated: a row contributes exactly when it passes the disease and
\* year filters, so the states of the result are the states of the passing
\* rows and each total is over the passing rows
C4_FiltersDecide ==
  AggPage =>
    /\ ResultKeys =
         {TextOf(AggInput[j].state) :
            j \in {k \in 1..Len(AggInput) : PassesFilters(AggInput[k])}}
    /\ \A i \in 1..Len(byStateAgg) :
         byStateAgg[i].cases = Num(SumCount(RowsOf(byStateAgg[i].state)))

\* C4 amended: a row with a non-empty state contributes exactly when it
\* passes the disease and year filters; a row with an empty state never
\* contributes
C4_FiltersAndStateDecide ==
  AggPage =>
    /\ ResultKeys =
         {TextOf(AggInput[j].state) :
            j \in {k \in 1..Len(AggInput) :
                     /\ PassesFilters(AggInput[k])
                     /\ TextOf(AggInput[k].state) # ""}}
    /\ \A i \in 1..Len(byStateAgg) :
         byStateAgg[i].cases = Num(SumCount(RowsOf(byStateAgg[i].state)))

C4_Witness ==
  /\ page = "map" /\ currentYear = Str("2020") /\ currentDisease = Null
  /\ Len(AggInput) = 2
  /\ TextOf(AggInput[1].state) = "CA" /\ JsString(AggInput[1].year) = "2021"
  /\ TextOf(AggInput[2].state) = "NY" /\ JsString(AggInput[2].year) = "2020"
  /\ ResultKeys = {"NY"}

\* C9: no state of the result of aggregateByState has negative cases
C9_CasesNonNegative ==
  AggPage => \A i \in 1..Len(byStateAgg) : ~JsLess(byStateAgg[i].cases, Num(0))

TextFields == {"state", "year", "disease"}
NumericFields == {"cases", "population", "population_density"}

\* the record the normaliser was given
NormSource == IF normVariant = "state_summary" THEN DynamicTyping(rawRow) ELSE rawRow

\* the alias lists as the revisions declare them
DeclaredAliases(variant) ==
  IF variant \in {"main", "map"} THEN
    [state |-> <<"state", "State", "STATE", "location", "province">>,
     year |-> <<"year", "Year", "YEAR">>,
     disease |-> <<"disease", "Disease", "condition">>,
     cases |-> <<"cases", "Cases", "value", "count">>,
     population |-> <<"population", "Population", "pop">>,
     population_density |-> <<"population_density", "population density", "density",
                              "pop_density">>]
  ELSE IF variant = "main_storage" THEN
    [state |-> <<"state", "State", "STATE", "location", "province">>,
     year |-> <<"year", "Year", "YEAR", "yr">>,
     disease |-> <<"disease", "Disease", "condition">>,
     cases |-> <<"cases", "Cases", "value", "count">>,
     population |-> <<"population", "Population", "pop">>,
     population_density |-> <<"population_density", "population density", "density",
                              "pop_density">>]
  ELSE
    [state |-> <<"state", "State", "STATE", "location", "Location", "province",
                 "Province">>,
     year |-> <<"year", "Year", "YEAR", "yr", "YearInt">>,
     disease |-> <<"disease", "Disease", "condition", "Condition", "illness">>,
     cases |-> <<"cases", "Cases", "value", "count", "Count">>,
     population |-> <<"population", "Population", "pop", "Pop">>,
     population_density |->
       IF variant = "state"
       THEN <<"population_density", "population density", "density", "pop_density",
              "pop density">>
       ELSE <<"population_density", "population density", "density", "pop_density",
              "Density">>]

HasCaseInsensitivePass(variant) == variant \in {"state", "state_summary"}

\* value of the first alias, in declared order, that the record holds
SelectedExact(r, keys) ==
  LET present == {i \in 1..Len(keys) : Get(r, keys[i]) # Undef}
  IN IF present = {} THEN Undef ELSE Get(r, keys[Min(present)])

\* value of the first alias that some column matches without regard to case
SelectedAnyCase(r, keys) ==
  LET cols(i) == {c \in 1..Len(ObjectKeys(r)) :
                    ToLower(ObjectKeys(r)[c]) = ToLower(keys[i])}
      hit == {i \in 1..Len(keys) : cols(i) # {}}
      last(S) == CHOOSE x \in S : \A y \in S : y <= x
  IN IF hit = {} THEN Undef ELSE r[ObjectKeys(r)[last(cols(Min(hit)))]]

Selected(variant, r, field) ==
  LET keys == DeclaredAliases(variant)[field]
  IN IF SelectedExact(r, keys) # Undef THEN SelectedExact(r, keys)
     ELSE IF HasCaseInsensitivePass(variant) THEN SelectedAnyCase(r, keys)
     ELSE Undef

PlainText(v) == IF v.t \in {"undef", "null"} THEN "" ELSE Trim(JsString(v))

\* C5 as stated: the per100k the normaliser produces is
\* (cases / population) * 100000 when population > 0 and 0 otherwise
C5_RowPer100k ==
  normVariant \in {"main_storage", "state_summary"} =>
    normRow.per100k =
      IF IsNum(normRow.population) /\ normRow.population.n > 0
      THEN JsMul(JsDiv(normRow.cases, normRow.population), Hundred_k)
      ELSE Num(0)

\* C6 as stated: every numeric field of a normalised row is a number, and
\* is 0 when its source value is missing or not numeric
C6_NumericFieldsAreNumbers ==
  normVariant # "none" =>
    \A f \in NumericFields :
      LET sel == Selected(normVariant, NormSource, f)
      IN /\ IsNum(normRow[f])
         /\ (sel = Undef \/ ~IsNum(ToNumber(sel))) => normRow[f] = Num(0)

\* C7: every field of the normalised row comes from the first alias, in
\* declared order, that the record holds; the case-insensitive pass is used
\* only when no exact alias is held; with no match the field is its default
C7_FirstAliasWins ==
  normVariant # "none" =>
    /\ \A f \in TextFields :
         LET sel == Selected(normVariant, NormSource, f)
         IN /\ Trim(normRow[f].s) = PlainText(sel)
            /\ normRow[f].t = "str"
            /\ sel = Undef => normRow[f] = Str("")
    /\ \A f \in NumericFields :
         LET sel == Selected(normVariant, NormSource, f)
         IN /\ sel = Undef => normRow[f] = Num(0)
            /\ (sel # Undef /\ IsNum(ToNumber(sel))) => normRow[f] = ToNumber(sel)

C7_Witness ==
  /\ normVariant = "state"
  /\ rawRow.cases = Str("5") /\ rawRow.Cases = Str("7") /\ normRow.cases = Num(5)
  /\ rawRow.disease = Undef /\ rawRow.DISEASE = Str("Cold")
  /\ normRow.disease = Str("Cold")
  /\ rawRow.population = Undef /\ rawRow.pop = Undef /\ normRow.population = Num(0)
  /\ rawRow.state = Undef /\ rawRow.State = Undef /\ normRow.state = Str("")

(***************************************************************************)
(* Properties of the state page.                                           *)
(***************************************************************************)

\* C8 as stated: no row without a state or without a year reaches a chart
\* series of the state page
C8_InvalidRowsExcluded ==
  /\ page = "state_summary" =>
       \A i \in 1..Len(scatterPoints) : Truthy(scatterPoints[i].state)
  /\ page = "state" => \A y \in tsYears : Truthy(y)

(***************************************************************************)
(* Properties of the charts of the map page.                               *)
(***************************************************************************)
\* the diseases the line chart shows, from its datasets
SeriesShown == {mapView.multiChart.datasets[k].label :
                  k \in 1..Len(mapView.multiChart.datasets)}

\* the years in which the rows the page holds report the disease
YearsReported(d) ==
  {JsString(PageData[i].year) :
     i \in {j \in 1..Len(PageData) : StrictEq(PageData[j].disease, Str(d))}}

AllYears == {JsString(PageData[i].year) : i \in 1..Len(PageData)}

\* C11: the x axis of the line chart buildMultiSeries draws holds exactly
\* the years that occur in the rows of every disease it shows, each once,
\* and every series has one value per year of the axis
C11_CommonYears ==
  (page \in MapPages /\ mapView.multiChart.drawn) =>
    LET labels == mapView.multiChart.labels
    IN /\ RangeOf(labels) = {y \in AllYears : \A d \in SeriesShown : y \in YearsReported(d)}
       /\ Cardinality(RangeOf(labels)) = Len(labels)
       /\ \A k \in 1..Len(mapView.multiChart.datasets) :
            Len(mapView.multiChart.datasets[k].data) = Len(labels)

C11_Witness ==
  /\ page = "map" /\ csv = OverlapYears
  /\ mapView.multiSelect.selected = <<"A", "B">>
  /\ mapView.multiChart.drawn
  /\ mapView.multiChart.labels = <<"2019", "2020">>
  /\ YearsReported("A") = {"2018", "2019", "2020"}
  /\ YearsReported("B") = {"2019", "2020", "2021"}

(***************************************************************************)
(* Properties of the top-N selections.                                     *)
(***************************************************************************)
\* the cases of the rows of one category, added up
CategoryCases(rows, keyOf(_), cat) ==
  SumOrZero(SelectSeq(rows, LAMBDA r : keyOf(r) = cat))

MapCategory(r) == JsString(r.disease)

StateCategory(r) == JsString(Or(r.disease, Str("Unknown")))

\* the rows of the state the state page shows
ShownStateRows == StateRows(stateAll.rows, Qstate)

\* C12: the diseases preselected on the map page and the diseases stacked
\* on the state page without the sunburst controller are at most N, none
\* has summed cases below those of a disease left out, the stacked ones
\* come in descending order of their summed cases, the totals they are
\* ranked by are the summed cases, and totals A:50, B:200, C:10, D:300
\* give D then B as the top 2
C12_TopN ==
  /\ (page \in MapPages /\ mapView.multiSelect.options # <<>>) =>
       LET sel == RangeOf(mapView.multiSelect.selected)
           rest == RangeOf(mapView.multiSelect.options) \ sel
           T(d) == CategoryCases(PageData, MapCategory, d)
       IN /\ Cardinality(sel) <= TopDefault
          /\ \A k \in sel : \A e \in rest : ~JsLess(T(k), T(e))
          /\ csv = TopExample => TopList(TotalsByDisease(PageData), 2) = <<"D", "B">>
  /\ (page = "state" /\ stateView.chartE.drawn /\ stateView.chartE.type = "bar") =>
       LET sets == stateView.chartE.datasets
           top == [i \in 1..Len(sets) |-> sets[i].label]
           rest == {StateCategory(r) : r \in RangeOf(ShownStateRows)} \ RangeOf(top)
           T(d) == CategoryCases(ShownStateRows, StateCategory, d)
       IN /\ Len(top) <= TopFallback
          /\ \A i \in 1..Len(top) : \A j \in i..Len(top) : ~JsLess(T(top[i]), T(top[j]))
          /\ \A k \in RangeOf(top) : \A e \in rest : ~JsLess(T(k), T(e))
          /\ \A i \in 1..Len(stateView.chartE.totals) :
               stateView.chartE.totals[i].total = T(stateView.chartE.totals[i].key)

\* the selector of the map page alone
C12_SelectorTopN ==
  (page \in MapPages /\ mapView.multiSelect.options # <<>>) =>
    LET sel == RangeOf(mapView.multiSelect.selected)
        rest == RangeOf(mapView.multiSelect.options) \ sel
        T(d) == CategoryCases(PageData, MapCategory, d)
    IN /\ Cardinality(sel) <= TopDefault
       /\ \A k \in sel : \A e \in rest : ~JsLess(T(k), T(e))

\* the stacked bar leaves out the rows without disease although their cases
\* exceed those of every disease it shows
C12_UnknownLeftOut ==
  /\ page = "state" /\ csv = SixCategories
  /\ stateView.chartE.drawn /\ stateView.chartE.type = "bar"
  /\ Len(stateView.chartE.datasets) = TopFallback
  /\ \A i \in 1..TopFallback : stateView.chartE.datasets[i].label # "Unknown"
  /\ CategoryCases(ShownStateRows, StateCategory, "Unknown") = Num(400)
  /\ CategoryCases(ShownStateRows, StateCategory, "A") = Num(300)

(***************************************************************************)
(* Properties of uniqueSorted.                                             *)
(***************************************************************************)
ParsesAsNumber(x) == ToNumber(x).t # "nan"

\* C13: the array uniqueSorted returns holds exactly the distinct values
\* of its argument that are not empty, each once, in ascending numeric
\* order when all of them parse as numbers and in ascending text order
\* otherwise
C13_UniqueSorted ==
  usOutput.by # "none" =>
    LET out == usOutput.out
        vals == RangeOf(out)
    IN /\ vals = {x \in RangeOf(usInput) : JsString(x) # ""}
       /\ Cardinality(vals) = Len(out)
       /\ IF \A x \in vals : ParsesAsNumber(x)
          THEN \A i \in 1..Len(out) : \A j \in i..Len(out) :
                  ~JsLess(ToNumber(out[j]), ToNumber(out[i]))
          ELSE \A i \in 1..Len(out) : \A j \in i..Len(out) :
                  ~LocaleBefore(JsString(out[j]), JsString(out[i]))

\* the numbers of a column that also holds a word come out in numeric
\* order, "2" ahead of "10"
C13_MixedNumericFirst ==
  /\ usOutput.by # "none"
  /\ usInput = <<Str("10"), Str("2"), Str("Flu")>>
  /\ usOutput.out = <<Str("2"), Str("10"), Str("Flu")>>
  /\ LocaleBefore("10", "2")

\* the value "NA" of a column is left out
C13_DropsNA ==
  /\ usOutput.by # "none"
  /\ usInput = <<Str("NA"), Str("Flu")>>
  /\ usOutput.out = <<Str("Flu")>>

(***************************************************************************)
(* Properties of the charts drawn from the aggregation.                    *)
(***************************************************************************)
\* the place of a state in the aggregation the page holds
AggIndex(st) == CHOOSE i \in 1..Len(byStateAgg) : byStateAgg[i].state = st

\* C14: under cases_desc the bars of buildCasesByStateBar are the states of
\* the aggregation, each once, with their cases, in non-increasing order of
\* cases, and states with equal cases stand in the order the aggregation
\* has them
C14_StableCasesDesc ==
  (page \in MapPages /\ mapView.casesByStateChart.drawn
     /\ controls.casesSortSelect = "cases_desc") =>
    LET labels == mapView.casesByStateChart.labels
        data == mapView.casesByStateChart.data
    IN /\ Len(labels) = Len(byStateAgg) /\ Len(data) = Len(labels)
       /\ RangeOf(labels) = {byStateAgg[i].state : i \in 1..Len(byStateAgg)}
       /\ \A i \in 1..Len(labels) :
            data[i] = Or(byStateAgg[AggIndex(labels[i])].cases, Num(0))
       /\ \A i \in 1..Len(labels) : \A j \in (i + 1)..Len(labels) :
            /\ ~JsLess(data[i], data[j])
            /\ data[i] = data[j] => AggIndex(labels[i]) < AggIndex(labels[j])

C14_Witness ==
  /\ page = "map" /\ csv = TiedCases
  /\ controls.casesSortSelect = "cases_desc"
  /\ mapView.casesByStateChart.drawn
  /\ [i \in 1..Len(byStateAgg) |-> byStateAgg[i].state] = <<"TX", "CA", "NY", "WA">>
  /\ mapView.casesByStateChart.labels = <<"TX", "CA", "WA", "NY">>
  /\ mapView.casesByStateChart.data = <<Num(100), Num(100), Num(100), Num(50)>>

\* the bins of the histogram the page shows
HistShown == mapView.histChart.bins

\* the value of the histogram for a state of the aggregation
HistValueOf(i) == HistValues(byStateAgg, controls.histNorm)[i]

\* the bins that list the state
BinsHolding(st) ==
  {b \in 1..Len(HistShown) :
     \E k \in 1..Len(HistShown[b].states) : HistShown[b].states[k].state = st}

RECURSIVE SumCounts(_)
SumCounts(bins) ==
  IF bins = <<>> THEN 0 ELSE SumCounts(Front(bins)) + Last(bins).count

\* C15: a histogram drawn by buildHistogram has 4 bins, every state of the
\* aggregation is listed in exactly one of them, the counts add up to the
\* number of states, and a state whose value lies beyond the upper edge of
\* the last bin is counted in the last bin; the totals 0, 50, 100, 5000
\* give the bins 0-999, 1000-1999, 2000-2999, 3000-3999
C15_FourBinsAllCounted ==
  (page \in MapPages /\ mapView.histChart.drawn) =>
    /\ Len(HistShown) = 4
    /\ SumCounts(HistShown) = Len(byStateAgg)
    /\ \A b \in 1..Len(HistShown) : HistShown[b].count = Len(HistShown[b].states)
    /\ \A i \in 1..Len(byStateAgg) :
         /\ Cardinality(BinsHolding(byStateAgg[i].state)) = 1
         /\ JsLess(HistShown[4].end, HistValueOf(i)) => BinsHolding(byStateAgg[i].state) = {4}
         /\ \A b \in 1..4 :
              (b \in BinsHolding(byStateAgg[i].state) /\ b < 4) =>
                 (/\ ~JsLess(HistValueOf(i), HistShown[b].start)
                  /\ ~JsLess(HistShown[b].end, HistValueOf(i)))
    /\ (csv = FarApart /\ controls.histNorm = "absolute") =>
         [b \in 1..4 |-> <<HistShown[b].start, HistShown[b].end>>]
           = << <<Num(0), Num(999)>>, <<Num(1000), Num(1999)>>,
                <<Num(2000), Num(2999)>>, <<Num(3000), Num(3999)>> >>

C15_Witness ==
  /\ page = "map" /\ csv = FarApart /\ controls.histNorm = "absolute"
  /\ mapView.histChart.drawn
  /\ [b \in 1..4 |-> HistShown[b].count] = <<3, 0, 0, 1>>
  /\ HistShown[4].end = Num(3999)
  /\ HistShown[4].states = <<[state |-> "WA", val |-> Num(5000)]>>

\* the values below and above x in a list of numbers
Below(vals, x) == Cardinality({i \in 1..Len(vals) : JsLess(vals[i], x)})
Above(vals, x) == Cardinality({i \in 1..Len(vals) : JsLess(x, vals[i])})

\* the value that has at most lo values below it and at most hi above it
Ranked(vals, lo, hi) ==
  CHOOSE x \in RangeOf(vals) : Below(vals, x) <= lo /\ Above(vals, x) <= hi

\* the median of a non-empty list: the middle value of an odd count, the
\* average of the two middle values of an even count
StandardMedian(vals) ==
  LET n == Len(vals)
  IN IF n % 2 = 1 THEN Ranked(vals, n \div 2, n \div 2)
     ELSE JsDiv(JsAdd(Ranked(vals, (n \div 2) - 1, n \div 2),
                      Ranked(vals, n \div 2, (n \div 2) - 1)), Num(2))

\* the observations behind one bar of the fallback of the box plot
FallbackValues(label) ==
  LET years == UniqueInOrder(ColumnTexts(PageData, "year"))
      states == UniqueInOrder(ColumnTexts(PageData, "state"))
  IN IF controls.boxGroup = "byYear"
     THEN [k \in 1..Len(states) |-> SumOrZero(CellRows(PageData, states[k], label))]
     ELSE [k \in 1..Len(years) |-> SumOrZero(CellRows(PageData, label, years[k]))]

AggCases == [i \in 1..Len(byStateAgg) |-> Or(byStateAgg[i].cases, Num(0))]

FallbackDrawn ==
  /\ page = "map_v2" /\ mapView.boxChart.drawn /\ mapView.boxChart.type = "bar"

TableDrawn == page \in MapPages /\ mapView.summaryTable.kind = "table"

\* C16 as amended: every bar of the fallback of the box plot is the median
\* of its observations (the middle one of an odd count, the average of the
\* two middle ones of an even count); the Median row of the summary table
\* is a row of the aggregation, the middle one by cases for an odd count
\* of states and the lower of the two middle ones for an even count
C16_Medians ==
  /\ FallbackDrawn =>
       \A i \in 1..Len(mapView.boxChart.labels) :
          mapView.boxChart.data[i] = StandardMedian(FallbackValues(mapView.boxChart.labels[i]))
  /\ TableDrawn =>
       LET n == Len(byStateAgg)
           row == mapView.summaryTable.median
       IN /\ \E i \in 1..n : /\ byStateAgg[i].state = row.state
                               /\ row.cases = AggCases[i]
          /\ row.cases = IF n % 2 = 1 THEN StandardMedian(AggCases)
                         ELSE Ranked(AggCases, (n \div 2) - 1, n \div 2)

\* C16 as stated: the bars of the fallback and the cases of the Median row
\* of the summary table are the median, with the average of the two middle
\* values for an even count
C16_MedianEverywhere ==
  /\ FallbackDrawn =>
       \A i \in 1..Len(mapView.boxChart.labels) :
          mapView.boxChart.data[i] = StandardMedian(FallbackValues(mapView.boxChart.labels[i]))
  /\ TableDrawn => mapView.summaryTable.median.cases = StandardMedian(AggCases)

\* four states: the bar of 2020 is the average 75 of 50 and 100, the Median
\* row is the state with 50
C16_Witness ==
  /\ csv = FarApart /\ controls.boxGroup = "byYear"
  /\ FallbackDrawn /\ TableDrawn
  /\ mapView.boxChart.labels = <<"2020">>
  /\ mapView.boxChart.data = <<Num(75)>>
  /\ mapView.summaryTable.median.state = "NY"
  /\ mapView.summaryTable.median.cases = Num(50)

(***************************************************************************)
(* Properties of the pages when a download fails.                          *)
(***************************************************************************)
\* a page was loaded and the dataset file did not arrive
DatasetFailed == page # "none" /\ net.csv # "ok"

\* C17: a page loaded while the dataset file does not arrive has finished
\* its initialisation, holds no rows, shows a notice, and none of its
\* promises was rejected without a handler
C17_LoadFailureHandled ==
  DatasetFailed =>
    /\ loadState = "done"
    /\ notices # {}
    /\ mapView.uncaught = {}
    /\ allRows = <<>> /\ byStateAgg = <<>>
    /\ ~PHdata.set \/ PHdata.rows = <<>>

\* the map page waits for a download that never completes and shows nothing
C17_MapPending ==
  /\ page = "map" /\ net = [csv |-> "offline", geo |-> "ok"]
  /\ loadState = "pending" /\ notices = {} /\ consoleLog = {}

\* the landing page of the localStorage revision takes the answer 404 for
\* an empty dataset, keeps it, and shows nothing
C17_SilentEmpty ==
  /\ page = "main_ls" /\ net.csv = "missing"
  /\ csv # <<>> /\ localStore = Cached(<<>>)
  /\ loadState = "done" /\ notices = {} /\ consoleLog = {}

(***************************************************************************)
(* Properties of the draw pass in a document that lacks a target.          *)
(***************************************************************************)
Absent == AllIds \ dom

\* what the draw pass of the loaded map page leaves in a document that
\* has every element
FullMapView ==
  CASE page = "map" ->
         MapDraws(Started(WiredUnguarded(AllIds), {}), PHdata.rows, byStateAgg,
                  DefaultControls, AllIds, plugins)
    [] page = "map_v1" ->
         MapDraws_v1(Started(WiredUnguarded(AllIds), {}), csv, byStateAgg,
                     DefaultControls, AllIds, plugins, TRUE)
    [] OTHER ->
         MapDraws_v2(Started(WiredGuarded(AllIds), {}), PHdata.rows, byStateAgg,
                     DefaultControls, AllIds, plugins)

\* the same for the state page
FullStateView ==
  [StateDraws(stateAll.rows, Qstate, currentDisease, DefaultControls, AllIds, plugins)
     EXCEPT !.stateMap = TRUE]

\* C18: after a page was loaded into a document that lacks the target of
\* one draw operation, that operation has drawn nothing, the console holds
\* a message, no error went uncaught, and every other draw operation has
\* left what it leaves in a complete document
C18_AbsentTargetSkipped ==
  /\ (page \in MapPages /\ Absent # {} /\ Absent \subseteq DOMAIN MapTargets) =>
       /\ \A t \in Absent : mapView[MapTargets[t]] = NoView[MapTargets[t]]
       /\ \A t \in DOMAIN MapTargets \ Absent :
            mapView[MapTargets[t]] = FullMapView[MapTargets[t]]
       /\ consoleLog # {} /\ mapView.uncaught = {}
  /\ (page = "state" /\ stateAll.rows # <<>>
        /\ Absent # {} /\ Absent \subseteq DOMAIN StateTargets) =>
       /\ \A t \in Absent : stateView[StateTargets[t]] = NoStateView[StateTargets[t]]
       /\ \A t \in DOMAIN StateTargets \ Absent :
            stateView[StateTargets[t]] = FullStateView[StateTargets[t]]
       /\ consoleLog # {}

\* the state page alone does as C18 says
C18_StatePageSkips ==
  (page = "state" /\ stateAll.rows # <<>>
     /\ Absent # {} /\ Absent \subseteq DOMAIN StateTargets) =>
    /\ \A t \in Absent : stateView[StateTargets[t]] = NoStateView[StateTargets[t]]
    /\ \A t \in DOMAIN StateTargets \ Absent :
         stateView[StateTargets[t]] = FullStateView[StateTargets[t]]
    /\ consoleLog # {}

\* without the canvas of the bar chart the map page draws its maps and
\* nothing after them
C18_BarAbortsPass ==
  /\ page = "map" /\ Absent = {"casesByStateBar"} /\ byStateAgg # <<>>
  /\ mapView.casesMap
  /\ ~mapView.histChart.drawn /\ ~mapView.scatterChart.drawn
  /\ ~mapView.multiChart.drawn /\ ~mapView.boxChart.drawn
  /\ mapView.summaryTable = NoTable /\ mapView.multiSelect = NoSelect
  /\ FullMapView.histChart.drawn /\ FullMapView.summaryTable.kind = "table"
  /\ consoleLog = {"Load error"}

(***************************************************************************)
(* Properties of callGeminiAPI and of the summary card.                    *)
(***************************************************************************)
\* the waits of a call are the first of 1000, 2000, 4000, ... milliseconds
RECURSIVE Doubling(_, _)
Doubling(first, n) ==
  IF n = 0 THEN <<>> ELSE <<first>> \o Doubling(first * 2, n - 1)

\* the retries the running or last call has made
Retries == Len(gemini.waits)

\* C19: a failed or rate-limited request of callGeminiAPI is retried up to
\* 3 times: as long as fewer than 3 retries have been made, a request that
\* failed or was rate limited is followed by a wait and a retry, so a call
\* gives up only after its third retry; at most 3 retries are made; the
\* wait before the first retry is 1000 ms and each further wait is twice the
\* one before; and no request is sent once the call has ended.
C19_RetriedThreeTimes ==
  /\ Retries <= 3
  /\ gemini.requests = (IF gemini.pc = "idle" /\ gemini.result = "none" THEN 0
                        ELSE Retries + 1)
  /\ gemini.waits = Doubling(1000, Retries)
  /\ gemini.pc = "idle" => gemini.requests = Len(gemini.outcomes)
  /\ gemini.result \in {"thrown", "exceeded"} => Retries = 3

\* what callGeminiAPI does: at most 3 requests in all (2 retries), waits of
\* 1000 ms then 2000 ms, every request of an ended call answered, a call
\* that gives up has sent exactly 3 requests
C19_ThreeRequests ==
  /\ gemini.requests <= maxRetries
  /\ gemini.requests = (IF gemini.pc = "idle" /\ gemini.result = "none" THEN 0
                        ELSE Retries + 1)
  /\ gemini.waits = Doubling(InitialDelay, Retries)
  /\ gemini.pc = "idle" => gemini.requests = Len(gemini.outcomes)
  /\ gemini.result = "thrown" => gemini.requests = maxRetries
  /\ gemini.result # "exceeded"

\* a call has given up after its second retry failed
C19_GaveUpAfterTwo ==
  /\ gemini.result = "thrown" /\ Retries = 2
  /\ gemini.waits = <<1000, 2000>>
  /\ WidgetState(summaryUi) = "error"

\* a step of the card: a click, a completed request or a fired timer
CardStep ==
  \/ ClickGenerateSummary
  \/ \E o \in FetchOutcomes : FetchCompletes(o)
  \/ TimerFires

\* C20: once generateSummary has put the card in the loading state, and
\* every fetch completing, the card reaches ready or error; it is ready
\* after a call only when a request succeeded and in error after a call only
\* when the attempts are used up; in the error state the message is shown
\* and the summary text and the citations are hidden; and a step of the card
\* changes nothing of the page outside the card.
C20_LoadingEnds ==
  /\ (WidgetState(summaryUi) = "loading")
       ~> (WidgetState(summaryUi) \in {"ready", "error"})
  /\ [](/\ WidgetState(summaryUi) = "loading" <=> gemini.pc # "idle"
        /\ gemini.result = "returned" =>
             /\ WidgetState(summaryUi) = "ready"
             /\ gemini.outcomes[Len(gemini.outcomes)] \in Succeeded
             /\ summaryUi.text = "summary" /\ summaryUi.textShown
        /\ gemini.result = "thrown" =>
             /\ WidgetState(summaryUi) = "error"
             /\ gemini.requests = maxRetries
             /\ \A k \in 1..Len(gemini.outcomes) : gemini.outcomes[k] \notin Succeeded
        /\ WidgetState(summaryUi) = "error" =>
             /\ summaryUi.errorShown /\ summaryUi.errorText # ""
             /\ ~summaryUi.textShown /\ ~summaryUi.citationsShown
             /\ ~summaryUi.btnDisabled)
  /\ [][CardStep =>
          UNCHANGED <<csv, PHdata, page, currentDisease, currentYear, Qstate,
                      byStateAgg, allRows, stateAll, scatterPoints, tsYears,
                      totalCases, repeatCall, dom, plugins, net, localStore,
                      controls, mapView, stateView, notices, loadState,
                      leaflet, theme>>]_vars

\* the card shows the error of a call whose three requests all failed, the
\* charts of the page as they were drawn
C20_Witness ==
  /\ page = "state_summary" /\ gemini.result = "thrown"
  /\ gemini.requests = 3 /\ gemini.outcomes[3] = "429"
  /\ WidgetState(summaryUi) = "error" /\ summaryUi.errorText = FailedAfterRetries
  /\ ~summaryUi.textShown /\ scatterPoints # <<>>

\* the card shows the summary a retry brought
C20_ReadyAfterRetry ==
  /\ gemini.result = "returned" /\ gemini.requests = 2
  /\ WidgetState(summaryUi) = "ready" /\ summaryUi.citations = "sources"

(***************************************************************************)
(* Properties of the chart functions as users of the shared data.          *)
(***************************************************************************)
\* a call of buildCasesByStateBar, buildHistogram or buildScatter by a listener
ChartCall ==
  \/ \E mode \in AllSortModes : ChangeCasesSort(mode)
  \/ \E norm \in {"absolute", "per100k"} : ChangeHistNorm(norm)
  \/ \E checked \in BOOLEAN : ChangeScatterPerCapita(checked)

BoxChange ==
  \/ \E g \in {"byYear", "byState"} : ChangeBoxGroup(g)
  \/ \E n \in {"absolute", "per100k"} : ChangeBoxNorm(n)
  \/ \E a \in {"linear", "logarithmic"} : ChangeBoxAxis(a)

\* the box plot of the page for the control values ctl
BoxPlotFor(ctl) ==
  IF page = "map" THEN buildBoxPlot(PHdata.rows, ctl.boxGroup, ctl.boxNorm)
  ELSE buildBoxPlot_v1(csv, ctl.boxGroup, ctl.boxNorm)

\* C22: the recomputation a change of a box-plot control triggers runs
\* synchronously on the dataset in memory (the change leaves no work
\* pending), so whenever no work is pending the box plot on the canvas is
\* the one of the control values selected last: group, normalisation, axis.
C22_BoxPlotCurrent ==
  /\ [][BoxChange => mapView'.boxParses = <<>>]_vars
  /\ [](page \in {"map", "map_v1"} /\ loadState = "done" /\ mapView.boxParses = <<>> =>
          /\ mapView.boxOf = BoxControls(controls)
          /\ mapView.boxChart = BoxPlotFor(controls))

\* map.js alone: every change redraws the box plot before it returns
C22_MapJsCurrent ==
  page = "map" /\ loadState = "done" =>
    /\ mapView.boxParses = <<>>
    /\ mapView.boxOf = BoxControls(controls)
    /\ mapView.boxChart = BoxPlotFor(controls)

\* first charts revision: both downloads have arrived, the one started first
\* last, and the canvas shows the plot by state while byYear is selected
C22_StalePlot ==
  /\ page = "map_v1" /\ mapView.boxParses = <<>>
  /\ controls.boxGroup = "byYear" /\ mapView.boxOf[1] = "byState"
  /\ mapView.boxChart # BoxPlotFor(controls)

\* map.js: the plot of the values chosen last after three changes
C22_MapJsRedrawn ==
  /\ page = "map" /\ BoxControls(controls) = <<"byState", "per100k", "logarithmic">>
  /\ mapView.boxChart.drawn /\ mapView.boxChart = BoxPlotFor(controls)
  /\ mapView.boxChart # BoxPlotFor(DefaultControls)

(***************************************************************************)
(* Properties of buildMaps.                                                *)
(***************************************************************************)
\* C23: after any number of buildMaps calls the cases map holds at most one
\* cases choropleth layer, at most one density layer and at most one layer
\* control.
C23_OneLayerEach ==
  page \in MapPages =>
    leaflet.cases <= 1 /\ leaflet.density <= 1 /\ leaflet.controls <= 1

\* map.js and the robust revision: the previous layers and the control are
\* removed before the new ones are added, whatever the user had switched on
C23_RemovedFirst ==
  page \in {"map", "map_v2"} =>
    /\ leaflet.cases <= 1 /\ leaflet.density <= 1 /\ leaflet.controls <= 1
    /\ leaflet.cases = (IF leaflet.casesLayer = "on" THEN 1 ELSE 0)
    /\ leaflet.density = (IF leaflet.densityLayer = "on" THEN 1 ELSE 0)
    /\ leaflet.controls = (IF leaflet.control THEN 1 ELSE 0)

\* first charts revision: the second call of buildMaps has put a second
\* choropleth on the map
C23_Stacked == page = "map_v1" /\ leaflet.cases = 2

\* map.js: the density overlay is on the map next to the cases layer
C23_BothOverlays ==
  page = "map" /\ leaflet.cases = 1 /\ leaflet.density = 1 /\ leaflet.controls = 1

(***************************************************************************)
(* Properties of the search button of the landing page.                    *)
(***************************************************************************)
\* C24: on the landing page, after any sequence of disease-change and
\* year-change events, the search button is enabled only if a disease and a
\* year are both selected; a change of the disease after a year was chosen
\* leaves the button disabled.
C24_SearchNeedsBoth ==
  /\ [](page \in LandingPages /\ ~controls.searchDisabled =>
          controls.diseaseSelect # "" /\ controls.yearSelect # "")
  /\ [][(\E d \in {"", "Flu", "Cold"} : ChangeDisease(d)) => controls'.searchDisabled]_vars

\* part_004 and part_005 switch the button off in the disease listener
C24_OtherRevisions ==
  page \in {"main_ls", "main_v1"} /\ ~controls.searchDisabled =>
    controls.diseaseSelect # "" /\ controls.yearSelect # ""

\* main.js: the button is enabled while Cold is selected and no year is
C24_EnabledWithoutYear ==
  /\ page = "main" /\ ~controls.searchDisabled
  /\ controls.diseaseSelect = "Cold" /\ controls.yearSelect = ""

\* part_004: the button is enabled with a disease and a year selected
C24_EnabledWithBoth ==
  /\ page = "main_ls" /\ ~controls.searchDisabled
  /\ controls.diseaseSelect = "Flu" /\ controls.yearSelect = "2021"

(***************************************************************************)
(* Properties of loadData and its entry in localStorage.                   *)
(***************************************************************************)
\* C25: loadData returns the cached dataset without fetching only when the
\* cache holds a dataset loaded before; when the entry is the result of a
\* load that produced no row, the call fetches the file again; an entry that
\* does not parse is removed and the file is fetched.
C25_CacheOnlyLoaded ==
  [][MainInit_ls =>
       LET call == loadData(localStore, csv, net.csv)
       IN /\ ~call.fetched => localStore.set /\ ~IsGarbled(localStore) /\ localStore.rows # <<>>
          /\ localStore.set /\ ~IsGarbled(localStore) /\ localStore.rows = <<>> => call.fetched
          /\ IsGarbled(localStore) => call.fetched /\ ~IsGarbled(localStore')]_vars

\* what loadData does keep to: a dataset with rows is returned from the
\* cache, an entry that does not parse is dropped and the file fetched, and
\* a fetch that was rejected leaves no entry behind
C25_CacheKept ==
  [][MainInit_ls =>
       LET call == loadData(localStore, csv, net.csv)
       IN /\ localStore.set /\ ~IsGarbled(localStore) /\ localStore.rows # <<>> =>
               ~call.fetched /\ localStore' = localStore
          /\ IsGarbled(localStore) => call.fetched /\ ~IsGarbled(localStore')
          /\ ~localStore.set /\ net.csv = "offline" => ~localStore'.set]_vars

\* the file is back and has rows, the page was loaded again, and it still
\* shows the empty dataset kept when the file was missing
C25_StickyEmpty ==
  /\ page = "main_ls" /\ net.csv = "ok" /\ Len(csv) = 2
  /\ Truthy(csv[1].state) /\ localStore = Cached(<<>>)
  /\ allRows = <<>> /\ notices = {}

\* an entry that did not parse was replaced by the rows of the file
C25_GarbledReplaced ==
  /\ page = "main_ls" /\ consoleLog = {"Failed to parse cached data"}
  /\ localStore.set /\ ~IsGarbled(localStore) /\ Len(localStore.rows) = 2

(***************************************************************************)
(* The bins of buildHistogram and the values between their edges.          *)
(***************************************************************************)
\* the states a drawn histogram lists, each with the bin that lists it
HistEntries ==
  UNION {{[bin |-> b, val |-> HistShown[b].states[k].val,
           state |-> HistShown[b].states[k].state] :
            k \in 1..Len(HistShown[b].states)} : b \in 1..Len(HistShown)}

\* the value lies between the start of the first bin and the end of the last
WithinBins(val) ==
  ~JsLess(val, HistShown[1].start) /\ ~JsLess(HistShown[HistBins].end, val)

\* C26: in a histogram drawn by buildHistogram of map.js (either revision
\* that bounds the bin width below by 1), a value between the start of the
\* first bin and the end of the fourth bin is listed in a bin whose range
\* start..end holds it, and in the first such bin; this for the fractional
\* per-100k values as for the case counts
C26_ValueInItsBin ==
  (page \in {"map", "map_v2"} /\ mapView.histChart.drawn) =>
    \A e \in HistEntries :
      WithinBins(e.val) =>
        /\ InBin(e.val, HistShown[e.bin])
        /\ \A b \in 1..(e.bin - 1) : ~InBin(e.val, HistShown[b])

\* what the three revisions do: a state is listed in the first bin whose
\* range holds its value, and in the last bin when no range does; a value
\* above the end of the fourth bin is such a value, and a whole number
\* between the edges is held by a range in the two revisions whose bin
\* width is at least 1
C26_FirstBinOrLast ==
  (page \in MapPages /\ mapView.histChart.drawn) =>
    \A e \in HistEntries :
      /\ (\E b \in 1..HistBins : InBin(e.val, HistShown[b])) =>
           /\ InBin(e.val, HistShown[e.bin])
           /\ \A b \in 1..(e.bin - 1) : ~InBin(e.val, HistShown[b])
      /\ (\A b \in 1..HistBins : ~InBin(e.val, HistShown[b])) => e.bin = HistBins
      /\ JsLess(HistShown[HistBins].end, e.val) => e.bin = HistBins
      /\ (page # "map_v1" /\ e.val.t = "num" /\ e.val.d = 1 /\ WithinBins(e.val)) =>
           InBin(e.val, HistShown[e.bin])

\* a single state whose rate is 233.33 per 100k: the bins are 233-233,
\* 234-234, 235-235, 236-236 and the state is counted in 236-236
C26_BetweenBins ==
  /\ page = "map" /\ mapView.histChart.drawn /\ controls.histNorm = "per100k"
  /\ [b \in 1..HistBins |-> <<HistShown[b].start, HistShown[b].end>>]
       = << <<Num(233), Num(233)>>, <<Num(234), Num(234)>>,
            <<Num(235), Num(235)>>, <<Num(236), Num(236)>> >>
  /\ HistShown[HistBins].states = <<[state |-> "TX", val |-> Rat(700, 3)]>>

\* whole numbers between the edges, each in the bin that holds it
C26_WholeNumbers ==
  /\ page = "map" /\ mapView.histChart.drawn /\ controls.histNorm = "absolute"
  /\ \E e \in HistEntries : e.bin = 1 /\ WithinBins(e.val)
  /\ \E e \in HistEntries : e.bin = HistBins /\ WithinBins(e.val)

(***************************************************************************)
(* Normalising a normalised record.                                        *)
(***************************************************************************)
\* a call of normaliseRow on a record that a normaliseRow returned
Renormalise == RenormaliseMap \/ RenormaliseState

\* C27: normaliseRow of map.js and of state.js, applied to a record that
\* one of them returned, returns that record unchanged, whatever the record
\* of the file was, text in the numeric columns included
C27_Idempotent ==
  [][Renormalise => normRow' = normRow]_vars

\* what holds: normaliseRow of state.js returns its own results unchanged,
\* and either function returns a normalised record unchanged when none of
\* its numeric fields is NaN and its year has no blank around it
C27_IdempotentOnClean ==
  [][/\ (RenormaliseState /\ normVariant \in {"state", "state_again"}) => normRow' = normRow
     /\ (/\ Renormalise
         /\ \A f \in NumericFields : normRow[f].t # "nan"
         /\ normRow.year.s = Trim(normRow.year.s)) => normRow' = normRow]_vars

\* a record with cases "abc": NaN after map.js normaliseRow, 0 after the
\* second pass
C27_NaNBecomesZero ==
  /\ normVariant = "map_again"
  /\ rawRow.cases = NaN /\ normRow.cases = Num(0)
  /\ \A f \in DOMAIN normRow \ {"cases"} : normRow[f] = rawRow[f]

\* a record normalised twice by state.js, the same both times
C27_StateTwice ==
  /\ normVariant = "state_again"
  /\ rawRow = normRow /\ normRow.cases = Num(5) /\ normRow.year = Str("2020")

(***************************************************************************)
(* The change listeners of the state page selectors.                       *)
(***************************************************************************)
Selectors == stateView.selectors

\* a change event on the disease selector, on an axis selector
DiseaseChange == \E chosen \in SUBSET {"A", "Cold", "Flu"} : ChangeStateDisease(chosen)
AxisChange ==
  \E id \in {"stateScatterX", "stateScatterY"},
     value \in {"population", "population_density", "year", "cases", "per100k"} :
    ChangeStateScatter(id, value)

ListenerCounts(s) == <<s.listeners, s.scatterX, s.scatterY>>

\* C28: on the state page of either revision a change event leaves the
\* number of change listeners on the disease selector and on the axis
\* selectors as init left it, redraws the chart of the selector exactly
\* once, and a redraw of the comparison chart keeps and shows the diseases
\* the user selected
C28_ListenersConstant ==
  [][/\ (DiseaseChange /\ Selectors.listeners > 0) =>
          /\ ListenerCounts(Selectors') = ListenerCounts(Selectors)
          /\ Selectors'.redraws = 1
          /\ Selectors'.selected = Selectors'.chosen
          /\ Selectors'.drawnFor = Selectors'.chosen
     /\ (AxisChange /\ Selectors'.scatterDraws > 0) =>
          /\ ListenerCounts(Selectors') = ListenerCounts(Selectors)
          /\ Selectors'.scatterDraws = 1]_vars

\* what holds: all of it on the page of state.js; on the page of the first
\* revision the axis selectors keep one listener each and a change of an
\* axis redraws the scatter plot once, while a change of the disease
\* selector runs every listener it holds, doubles their number and leaves
\* no disease selected
C28_PerRevision ==
  [][/\ (page = "state" /\ DiseaseChange /\ Selectors.listeners > 0) =>
          /\ ListenerCounts(Selectors') = ListenerCounts(Selectors)
          /\ Selectors'.redraws = 1
          /\ Selectors'.selected = Selectors'.chosen
          /\ Selectors'.drawnFor = Selectors'.chosen
     /\ (AxisChange /\ Selectors'.scatterDraws > 0) =>
          /\ ListenerCounts(Selectors') = ListenerCounts(Selectors)
          /\ Selectors'.scatterDraws = 1
     /\ (page = "state_v1" /\ DiseaseChange) =>
          /\ Selectors'.listeners = 2 * Selectors.listeners
          /\ Selectors'.redraws = Selectors.listeners
          /\ Selectors.listeners > 0 => Selectors'.selected = {}]_vars

\* the third change of the selection on the page of the first revision:
\* four redraws, eight listeners, and the two diseases picked are gone
C28_Doubled ==
  /\ page = "state_v1"
  /\ Selectors.redraws = 4 /\ Selectors.listeners = 8
  /\ Selectors.chosen = {"Cold", "Flu"} /\ Selectors.selected = {} /\ Selectors.drawnFor = {}

\* the page of state.js after a change of the selection
C28_StateJsKeeps ==
  /\ page = "state"
  /\ Selectors.redraws = 1 /\ Selectors.listeners = 1
  /\ Selectors.chosen = {"A"} /\ Selectors.selected = {"A"} /\ Selectors.drawnFor = {"A"}
  /\ Selectors.options = <<"A", "Cold", "Flu">>

(***************************************************************************)
(* The theme preference and the document.                                  *)
(***************************************************************************)
ThemeClick == \E target \in ToggleIds \cup IconIds : ClickTheme(target)

Opposite(name) == IF name = "dark" THEN "light" ELSE "dark"

\* the document is in dark mode iff phd_theme is 'dark'
DarkIffStored ==
  theme.script # "none" => (theme.attr = "dark" <=> theme.stored = "dark")

\* C29: a click on a theme toggle changes phd_theme once, from 'dark' to
\* 'light' or from anything else to 'dark', and with a theme script loaded
\* the document is in dark mode exactly when phd_theme is 'dark'
C29_ClickFlipsOnce ==
  /\ []DarkIffStored
  /\ [][ThemeClick => theme'.stored = Opposite(theme.stored) /\ theme'.toggles = 1]_vars

\* what holds: the document always agrees with phd_theme; the event
\* revision flips the preference once per click; theme.js, whose two
\* blocks each listen for the click, flips it twice and so leaves a
\* preference of 'light' or 'dark' as it was
C29_PerScript ==
  /\ []DarkIffStored
  /\ [][ThemeClick =>
          /\ theme.script = "theme_v2" =>
               theme'.stored = Opposite(theme.stored) /\ theme'.toggles = 1
          /\ theme.script = "theme.js" =>
               /\ theme'.toggles = 2
               /\ theme'.stored = Opposite(Opposite(theme.stored))]_vars

\* theme.js, light theme, one click: toggle() has run twice and the theme
\* is light as before
C29_ClickUndone ==
  /\ theme.script = "theme.js" /\ theme.clicks = 1 /\ theme.toggles = 2
  /\ theme.stored = "light" /\ theme.attr = "none"

\* the event revision, one click from light: dark
C29_Flipped ==
  /\ theme.script = "theme_v2" /\ theme.clicks = 1 /\ theme.toggles = 1
  /\ theme.stored = "dark" /\ theme.attr = "dark"

(***************************************************************************)
(* The generate button and the running request sequence.                   *)
(***************************************************************************)
\* a callGeminiAPI is between its first request and its return or throw
CallRunning == gemini.pc # "idle"

\* C30: on the summary page the generate button is disabled exactly while
\* a callGeminiAPI started by generateSummary is running: a click, which
\* only an enabled button receives, never finds a call running, so no
\* second call starts before the first has returned or thrown; and when the
\* call returns or throws the button is enabled again, with the summary or
\* the error shown
C30_OneSequence ==
  /\ [](page = "state_summary" => (CallRunning <=> summaryUi.btnDisabled))
  /\ [][ClickGenerateSummary => ~CallRunning]_vars
  /\ [][(CardStep /\ CallRunning /\ ~CallRunning') =>
          /\ ~summaryUi'.btnDisabled
          /\ gemini'.result = "returned" => WidgetState(summaryUi') = "ready"
          /\ gemini'.result \in {"thrown", "exceeded"} => WidgetState(summaryUi') = "error"]_vars

\* a request has failed and the call waits to retry: the button is disabled
C30_Witness ==
  /\ page = "state_summary" /\ gemini.pc = "wait" /\ Len(gemini.outcomes) = 1
  /\ summaryUi.btnDisabled /\ WidgetState(summaryUi) = "loading"

\* the call has thrown after its last request: the button is enabled again
C30_EnabledAfterFailure ==
  /\ page = "state_summary" /\ gemini.pc = "idle" /\ gemini.result = "thrown"
  /\ ~summaryUi.btnDisabled /\ WidgetState(summaryUi) = "error"

====
